---- MODULE Spec2Model ----
(***************************************************************************)
(* A model of qtip_parse.cpp: the single pass over SAM files (sam_pass1,   *)
(* driven by main), the feature-record emitters (print_unpaired,           *)
(* print_paired_helper) and the edit-transcript construction of Alignment. *)
(***************************************************************************)
EXTENDS Integers, Sequences, FiniteSets, TLC

(***************************************************************************)
(* Bounds of the model.                                                    *)
(***************************************************************************)
\* lines read over the whole run (all SAM files together)
MaxLines == 3
\* number of SAM files given on the command line (sams.size())
MaxSams == 2
\* largest number of comma-separated values of a ZT:Z tag
MaxZtz == 2
\* largest number of operations of a CIGAR string
MaxOps == 2
\* largest run length of a CIGAR operation
MaxRun == 2

VARIABLES
    status,          \* "run", or how the process ended: "done", "throw", "assert", "crash",
                     \* or "hang": it loops forever
    ndebug,          \* the build: TRUE when assert() is compiled out
    do_features,     \* main: mode 'f'
    keep_templates,  \* main: mode 's' (keep_templates = do_simulation)
    sam,             \* main: index i of the SAM file being parsed
    total,           \* lines read so far, over all files (bounds the model)
    nline,           \* sam_pass1 locals ...
    line1,
    al_cur1,
    al1,
    al2,
    cnt,
    head,
    nztz,
    linebuf,         \* the number of the line that linebuf1 and linebuf2 hold
    write_buf,       \* the global output row buffer
    rec_fh,          \* per lane: what the binary feature file holds
    meta_fh,         \* per lane: the lines of the metadata file
    templates,       \* per lane: number of units offered to the reservoir
    last,            \* what the last step did (history, not program state)
    nshort,          \* number of short writes so far (history)
    hist,            \* per lane the line_id last written to its feature file, and
                     \* the lines read before the current SAM file (history)
    input,           \* the kind of lines the SAM files of this run hold
    xs,              \* an alignment, its two encodings, and what each path built
    pf               \* the argument and the result of a function of Alignment

pvars == <<status, ndebug, do_features, keep_templates, sam, total, nline, line1,
           al_cur1, al1, al2, cnt, head, nztz, linebuf, write_buf, rec_fh, meta_fh,
           templates, last, nshort, hist, input, xs, pf>>

Lanes == {"u", "b", "c", "d"}

NoHist == [last_id |-> [L \in Lanes |-> 0], file_start |-> 0]

(***************************************************************************)
(* Input lines.  A line is a header line or an alignment line with its     *)
(* flag, the simulated-type tag of its read name ("" when the name does    *)
(* not start with the simulation prefix), and the part after the flag:     *)
(* tr says where an edit transcript can come from ("ext": extended CIGAR,  *)
(* "mdz": plain CIGAR with MD:Z, "none": plain CIGAR, no MD:Z), nz is the  *)
(* number of values of the ZT:Z tag (0: no tag), pos the position.  With   *)
(* tr "mdz_nl" the MD:Z tag is the last field of the line, so that its     *)
(* value ends with the line terminator that fgets keeps.                   *)
(***************************************************************************)
DefRest == [tr |-> "ext", nz |-> 1, pos |-> 100]

HdrLine == [k |-> "hdr", flag |-> 0, typ |-> "", rest |-> DefRest]

Aln(f, t, r) == [k |-> "aln", flag |-> f, typ |-> t, rest |-> r]

\* flags of aligned records: unpaired; mate 1 / mate 2, discordant or concordant
AlnFlags == {0, 65, 67, 129, 131}
\* flags of unaligned records: unpaired, mate 1, mate 2
UnalFlags == {4, 69, 133}
\* secondary and supplementary
SkipFlags == {256, 2048}

\* read names with a simulated-type tag: the tag, by the flag of the record
TaggedLines ==
    {Aln(0, t, DefRest) : t \in {"u", "c"}}
    \cup {Aln(65, t, DefRest) : t \in {"b1", "b2", "d"}}
    \cup {Aln(67, t, DefRest) : t \in {"c", "d"}}
    \cup {Aln(129, "b2", DefRest), Aln(131, "c", DefRest), Aln(69, "b2", DefRest)}

\* one thing differs from DefRest: the ZT:Z tag (absent, or more values), the
\* transcript (none), or both the position and the transcript
PayloadLines ==
    {Aln(f, "", [DefRest EXCEPT !.nz = n]) : f \in {0, 65}, n \in (0..MaxZtz) \ {1}}
    \cup {Aln(129, "", [DefRest EXCEPT !.nz = 0])}
    \cup {Aln(f, "", [DefRest EXCEPT !.tr = "none"]) : f \in {0, 65, 129}}
    \cup {Aln(f, "", [DefRest EXCEPT !.tr = "none", !.pos = 200]) : f \in {65, 129}}
    \cup {Aln(0, "", [DefRest EXCEPT !.tr = "mdz"])}
    \cup {Aln(f, "", [DefRest EXCEPT !.tr = "mdz_nl", !.nz = 0]) : f \in {0, 65}}

PlainLines ==
    {HdrLine} \cup {Aln(f, "", DefRest) : f \in UnalFlags \cup SkipFlags \cup AlnFlags}

\* the lines of a run: plain ones, and those of the run's kind (in a run over
\* payloads a concordant record comes as the mate of a pending record)
LineSet ==
    IF input = "tags" THEN PlainLines \cup TaggedLines
    ELSE (PlainLines \ {Aln(f, "", DefRest) : f \in {67, 131}}) \cup PayloadLines

\* The lines offered after a pending record: a record with a mate role has
\* the read name, and so the tag, of the pending one; and when the pending
\* record is not a plain one, the record is.
LinesAfter(al_prev) ==
    IF ~al_prev.valid THEN LineSet
    ELSE {l \in LineSet \cup {Aln(f, al_prev.typ, DefRest) :
                                  f \in (AlnFlags \cup UnalFlags) \ {0, 4}} :
             (l.k = "aln" /\ l.flag \in {65, 67, 69, 129, 131, 133})
                 => /\ l.typ = al_prev.typ
                    /\ (al_prev.rest # DefRest => l.rest = DefRest)}

(***************************************************************************)
(* Alignment: flag tests.                                                  *)
(***************************************************************************)
Bit(flag, b) == (flag \div b) % 2 = 1

is_aligned(al) == ~Bit(al.flag, 4)

is_concordant(al) == Bit(al.flag, 2)

mate_flag(al) == IF Bit(al.flag, 64) THEN 1 ELSE IF Bit(al.flag, 128) THEN 2 ELSE 0

\* Alignment::clear()
ClearedAl == [valid |-> FALSE, flag |-> 0, typ |-> "", line |-> 0, rest |-> DefRest]

\* whether parse_from_rname_on and parse_extra leave an edit transcript:
\* parse_cigar builds it from an extended CIGAR, parse_extra from CIGAR + MD:Z
has_edit_xscript(al) == al.rest.tr \in {"ext", "mdz", "mdz_nl"}

\* whether parse_extra returns: mdz_to_list (lines 264-298) does not advance
\* over a character that is no digit, no letter and no ^, the line terminator
\* at the end of an MD:Z value that ends the line included
parse_extra_returns(al) == al.rest.tr # "mdz_nl"

(***************************************************************************)
(* Values of feature records.  The numbers a record carries are named by   *)
(* the field and the source line of the record they are taken from.        *)
(***************************************************************************)
V(f, n) == <<f, n, 0>>

ZtzVals(al) == [i \in 1..al.rest.nz |-> <<"ztz", al.line, i - 1>>]

\* infer_read_length: the length of the sequence field of a raw line
infer_read_length(al) == V("len", al.line)

\* infer_num_ztzs: the number of ZT:Z values of a raw line (1 when there is none)
infer_num_ztzs(al) == IF al.rest.nz = 0 THEN 1 ELSE al.rest.nz

\* fwrite of n values: the number written, by the outcome of the write
Nwritten(io, n) == IF io = "full" THEN n ELSE n - 1

IoSet == {"full", "short"}

(***************************************************************************)
(* print_unpaired.  Result: rc ("ok", "short": returned -1, "throw"),      *)
(* wb the row buffer afterwards, tm the templates offered, fl the values   *)
(* handed to fwrite, nw the number fwrite wrote.                           *)
(***************************************************************************)
\* a variant: the mapping quality ahead of the ZT:Z values
UnpairedRow_mapq_first(al, ordlen) ==
    <<V("id", al.line), V("len", al.line), V("clip", al.line),
      V("alqual", al.line), V("clipqual", al.line), ordlen>>
    \o <<V("mapq", al.line)>>
    \o ZtzVals(al)
    \o <<V("correct", al.line)>>

UnpairedRow(al, ordlen) ==
    <<V("id", al.line), V("len", al.line), V("clip", al.line),
      V("alqual", al.line), V("clipqual", al.line), ordlen>>
    \o ZtzVals(al)
    \o <<V("mapq", al.line), V("correct", al.line)>>

print_unpaired(al, ordlen, wb, io) ==
    IF ~parse_extra_returns(al)
    THEN [rc |-> "hang", wb |-> wb, tm |-> 0, fl |-> <<>>, nw |-> 0]
    ELSE IF al.rest.nz = 0 \/ ~has_edit_xscript(al)
    THEN [rc |-> "throw", wb |-> wb, tm |-> 0, fl |-> <<>>, nw |-> 0]
    ELSE LET tm  == IF keep_templates THEN 1 ELSE 0
             buf == wb \o UnpairedRow(al, ordlen)
         IN  IF ~do_features
             THEN [rc |-> "ok", wb |-> wb, tm |-> tm, fl |-> <<>>, nw |-> 0]
             ELSE IF Nwritten(io, Len(buf)) # Len(buf)
             THEN [rc |-> "short", wb |-> buf, tm |-> tm, fl |-> buf,
                   nw |-> Nwritten(io, Len(buf))]
             ELSE [rc |-> "ok", wb |-> <<>>, tm |-> tm, fl |-> buf, nw |-> Len(buf)]

(***************************************************************************)
(* print_paired_helper and print_paired.                                   *)
(***************************************************************************)
OwnFields(al) ==
    <<V("len", al.line), V("clip", al.line), V("alqual", al.line), V("clipqual", al.line)>>

\* a variant: the second record repeats its own fields as the opposite mate's
PairedRows_own_twice(a1, a2, fraglen) ==
    <<V("id", a1.line)>> \o OwnFields(a1) \o ZtzVals(a1)
    \o OwnFields(a2) \o <<fraglen>> \o ZtzVals(a2)
    \o <<V("mapq", a1.line), V("correct", a1.line)>>
    \o <<V("id", a2.line)>> \o OwnFields(a2) \o ZtzVals(a2)
    \o OwnFields(a2) \o <<fraglen>> \o ZtzVals(a1)
    \o <<V("mapq", a2.line), V("correct", a2.line)>>

PairedRows(a1, a2, fraglen) ==
    \* mate 1 (lines 983-1028), mate 2 (1049-1098)
    <<V("id", a1.line)>> \o OwnFields(a1) \o ZtzVals(a1)
    \o OwnFields(a2) \o <<fraglen>> \o ZtzVals(a2)
    \o <<V("mapq", a1.line), V("correct", a1.line)>>
    \* now mate 2 again (1103-1116)
    \o <<V("id", a2.line)>> \o OwnFields(a2) \o ZtzVals(a2)
    \o OwnFields(a1) \o <<fraglen>> \o ZtzVals(a1)
    \o <<V("mapq", a2.line), V("correct", a2.line)>>

\* Alignment::fragment_length reads the transcript of the downstream mate (rpos)
fragment_length_dn(a1, a2) == IF a1.rest.pos < a2.rest.pos THEN a2 ELSE a1

print_paired_helper(a1, a2, wb, io, ub) ==
    LET thrown == [rc |-> "throw", wb |-> wb, tm |-> 0, fl |-> <<>>, nw |-> 0]
        dn     == fragment_length_dn(a1, a2)
        \* rpos() on an empty transcript: the assertion fails, or (NDEBUG) the
        \* read of the empty list is undefined: a crash or any value
        fraglen == IF has_edit_xscript(dn) THEN V("fraglen", a1.line)
                   ELSE V("garbage", a1.line)
        tm  == IF keep_templates THEN 1 ELSE 0
        buf == wb \o PairedRows(a1, a2, fraglen)
    IN  IF ~parse_extra_returns(a1) THEN [thrown EXCEPT !.rc = "hang"]
        ELSE IF a1.rest.nz = 0 \/ ~has_edit_xscript(a1) THEN thrown
        ELSE IF ~parse_extra_returns(a2) THEN [thrown EXCEPT !.rc = "hang"]
        ELSE IF a2.rest.nz = 0
        THEN thrown
        ELSE IF ~has_edit_xscript(dn) /\ ~ndebug
        THEN [thrown EXCEPT !.rc = "assert"]
        ELSE IF ~has_edit_xscript(dn) /\ ub = "crash"
        THEN [thrown EXCEPT !.rc = "crash"]
        ELSE IF ~do_features
        THEN [rc |-> "ok", wb |-> wb, tm |-> tm, fl |-> <<>>, nw |-> 0]
        ELSE IF Nwritten(io, Len(buf)) # Len(buf)
        THEN [rc |-> "short", wb |-> buf, tm |-> 0, fl |-> buf,
              nw |-> Nwritten(io, Len(buf))]
        ELSE [rc |-> "ok", wb |-> <<>>, tm |-> tm, fl |-> buf, nw |-> Len(buf)]

\* a variant: the record with mate role 1 always first
print_paired_by_role(m1, m2, wb, io, ub) ==
    print_paired_helper(m1, m2, wb, io, ub)

print_paired(m1, m2, wb, io, ub) ==
    IF m1.line < m2.line
    THEN print_paired_helper(m1, m2, wb, io, ub)
    ELSE print_paired_helper(m2, m1, wb, io, ub)

(***************************************************************************)
(* sam_pass1: the locals at the start of a pass.                           *)
(***************************************************************************)
Counters == {"nhead", "nsec", "nsupp", "npair", "nunp", "nunp_al", "nunp_unal",
             "npair_badend", "npair_conc", "npair_disc", "npair_unal",
             "ntyp_mismatch"}

InitLocals ==
    [nline |-> 0, line1 |-> TRUE, al_cur1 |-> TRUE, al1 |-> ClearedAl, al2 |-> ClearedAl,
     cnt |-> [c \in Counters |-> 0],
     head |-> [L \in Lanes |-> FALSE],
     nztz |-> [L \in Lanes |-> 0],
     linebuf |-> [b \in {1, 2} |-> 0]]

Locals ==
    [nline |-> nline, line1 |-> line1, al_cur1 |-> al_cur1, al1 |-> al1, al2 |-> al2,
     cnt |-> cnt, head |-> head, nztz |-> nztz, linebuf |-> linebuf]

\* A slot that is not pending is kept as cleared: its fields are dead, since
\* sam_pass1 clears the slot it fills (line 1330) before any use and reads the
\* other slot only when it is valid (line 1341).
Held(al) == IF al.valid THEN al ELSE ClearedAl

SetLocals(loc) ==
    /\ nline' = loc.nline
    /\ line1' = loc.line1
    /\ al_cur1' = loc.al_cur1
    /\ al1' = Held(loc.al1)
    /\ al2' = Held(loc.al2)
    /\ cnt' = loc.cnt
    /\ head' = loc.head
    /\ nztz' = loc.nztz
    /\ linebuf' = loc.linebuf

Bump(c, names) == [x \in Counters |-> IF x \in names THEN c[x] + 1 ELSE c[x]]

NoLast == [step |-> "init", route |-> "", lane |-> "", paired |-> FALSE,
           m1 |-> ClearedAl, m2 |-> ClearedAl, cur |-> ClearedAl, prev |-> ClearedAl,
           base |-> 0, fl |-> <<>>, nw |-> 0, rc |-> "", tm |-> 0]

(***************************************************************************)
(* sam_pass1, lines 1339-1361: mate up the current record with the pending *)
(* one.  err is "throw", "assert" (a failed assertion, debug build) or "". *)
(***************************************************************************)
MateUp(cur, prev) ==
    IF mate_flag(cur) # 0 /\ prev.valid
    THEN IF mate_flag(cur) = 1
         THEN [paired |-> TRUE, m1 |-> cur, m2 |-> prev,
               err |-> IF mate_flag(prev) # 2 THEN "throw" ELSE ""]
         ELSE [paired |-> TRUE, m1 |-> prev, m2 |-> cur,
               err |-> IF mate_flag(prev) # 1 /\ ~ndebug THEN "assert" ELSE ""]
    ELSE [paired |-> FALSE, m1 |-> ClearedAl, m2 |-> ClearedAl, err |-> ""]

(***************************************************************************)
(* sam_pass1, lines 1376-1495: the outcome of a record once mating is      *)
(* settled.  route is where the unit goes: "unp_unal", "pair_unal"         *)
(* (discarded), "mismatch", "pending", "assert", or the lane.              *)
(***************************************************************************)
\* a variant: the concordant bit read the wrong way round
Classify_conc_inverted(cur, mu) ==
    IF mate_flag(cur) = 0
    THEN IF ~is_aligned(cur) THEN "unp_unal"
         ELSE IF cur.typ = "" \/ cur.typ = "u" THEN "u"
         ELSE "mismatch"
    ELSE IF mu.paired
    THEN IF ~is_aligned(mu.m1) /\ ~is_aligned(mu.m2) THEN "pair_unal"
         ELSE IF is_aligned(mu.m1) # is_aligned(mu.m2)
         THEN LET alm == IF is_aligned(mu.m1) THEN mu.m1 ELSE mu.m2
              IN  IF alm.typ = "" \/ (alm.typ = "b1" /\ mate_flag(alm) = 1)
                                  \/ (alm.typ = "b2" /\ mate_flag(alm) = 2)
                  THEN "b" ELSE "mismatch"
         ELSE IF is_concordant(mu.m1) # is_concordant(mu.m2) /\ ~ndebug THEN "assert"
         ELSE IF ~is_concordant(mu.m1)
         THEN IF mu.m1.typ = "" \/ mu.m1.typ = "c" THEN "c" ELSE "mismatch"
         ELSE IF mu.m1.typ = "" \/ mu.m1.typ = "d" THEN "d" ELSE "mismatch"
    ELSE "pending"

Classify(cur, mu) ==
    IF mate_flag(cur) = 0
    THEN IF ~is_aligned(cur) THEN "unp_unal"
         ELSE IF cur.typ = "" \/ cur.typ = "u" THEN "u"
         ELSE "mismatch"
    ELSE IF mu.paired
    THEN IF ~is_aligned(mu.m1) /\ ~is_aligned(mu.m2) THEN "pair_unal"
         ELSE IF is_aligned(mu.m1) # is_aligned(mu.m2)
         THEN LET alm == IF is_aligned(mu.m1) THEN mu.m1 ELSE mu.m2
              IN  IF alm.typ = "" \/ (alm.typ = "b1" /\ mate_flag(alm) = 1)
                                  \/ (alm.typ = "b2" /\ mate_flag(alm) = 2)
                  THEN "b" ELSE "mismatch"
         ELSE IF is_concordant(mu.m1) # is_concordant(mu.m2) /\ ~ndebug THEN "assert"
         ELSE IF is_concordant(mu.m1)
         THEN IF mu.m1.typ = "" \/ mu.m1.typ = "c" THEN "c" ELSE "mismatch"
         ELSE IF mu.m1.typ = "" \/ mu.m1.typ = "d" THEN "d" ELSE "mismatch"
    ELSE "pending"

\* a variant: a type mismatch is dropped without being counted
RouteCounters_mismatch_uncounted(cur, route) ==
    (IF mate_flag(cur) = 0 THEN {"nunp"} ELSE {})
    \cup (CASE route = "unp_unal" -> {"nunp_unal"}
            [] route = "u" -> {"nunp_al"}
            [] route = "b" -> {"npair_badend"}
            [] route = "c" -> {"npair_conc"}
            [] route = "d" -> {"npair_disc"}
            [] route = "pair_unal" -> {"npair_unal"}
            [] OTHER -> {})

\* the counters a route increments (besides npair, counted when mating)
RouteCounters(cur, route) ==
    (IF mate_flag(cur) = 0 THEN {"nunp"} ELSE {})
    \cup (CASE route = "unp_unal" -> {"nunp_unal"}
            [] route = "u" -> {"nunp_al"}
            [] route = "b" -> {"npair_badend"}
            [] route = "c" -> {"npair_conc"}
            [] route = "d" -> {"npair_disc"}
            [] route = "pair_unal" -> {"npair_unal"}
            [] route = "mismatch" -> {"ntyp_mismatch"}
            [] OTHER -> {})

LaneCounter(L) == CASE L = "u" -> "nunp_al"
                    [] L = "b" -> "npair_badend"
                    [] L = "c" -> "npair_conc"
                    [] L = "d" -> "npair_disc"

\* the record whose raw line infer_num_ztzs scans for the lane's first unit
HeadRecord(L, cur, mu) ==
    CASE L = "u" -> cur
      [] L = "b" -> IF is_aligned(mu.m1) THEN mu.m1 ELSE mu.m2
      [] OTHER -> mu.m1

\* a variant: the opposite length of a bad-end pair taken from the mate of role 2
EmitUnit_olen_of_mate2(L, cur, mu, wb, io, ub) ==
    CASE L = "u" -> print_unpaired(cur, V("const", 0), wb, io)
      [] L = "b" -> IF is_aligned(mu.m1)
                    THEN print_unpaired(mu.m1, infer_read_length(mu.m2), wb, io)
                    ELSE print_unpaired(mu.m2, infer_read_length(mu.m2), wb, io)
      [] OTHER -> print_paired(mu.m1, mu.m2, wb, io, ub)

\* the line_id of the last record that the print call of a lane writes
LastLineId(L, cur, mu) ==
    CASE L = "u" -> cur.line
      [] L = "b" -> IF is_aligned(mu.m1) THEN mu.m1.line ELSE mu.m2.line
      [] OTHER -> IF mu.m1.line < mu.m2.line THEN mu.m2.line ELSE mu.m1.line

\* the print call of a lane
EmitUnit(L, cur, mu, wb, io, ub) ==
    CASE L = "u" -> print_unpaired(cur, V("const", 0), wb, io)
      [] L = "b" -> IF is_aligned(mu.m1)
                    THEN print_unpaired(mu.m1, infer_read_length(mu.m2), wb, io)
                    ELSE print_unpaired(mu.m2, infer_read_length(mu.m1), wb, io)
      [] OTHER -> print_paired(mu.m1, mu.m2, wb, io, ub)

\* the outcomes of fwrite and of undefined behaviour that a unit can meet
IoFor(L, cur, mu) ==
    IF do_features /\ EmitUnit(L, cur, mu, <<>>, "full", "value").rc = "ok"
    THEN IoSet ELSE {"full"}

UbFor(L, cur, mu) ==
    IF L \in {"c", "d"} /\ ndebug
       /\ ~has_edit_xscript(IF mu.m1.line < mu.m2.line
                             THEN fragment_length_dn(mu.m1, mu.m2)
                             ELSE fragment_length_dn(mu.m2, mu.m1))
    THEN {"crash", "value"} ELSE {"value"}

RecordsPerUnit(L) == IF L \in {"u", "b"} THEN 1 ELSE 2

(***************************************************************************)
(* fgets (line 1303-1304): the line goes to the buffer that line1 selects.  *)
(***************************************************************************)
Fgets(buf, sel, n) == [buf EXCEPT ![IF sel THEN 1 ELSE 2] = n]

(***************************************************************************)
(* One iteration of the loop of sam_pass1 on line l.  io is the outcome of *)
(* fwrite, ub the outcome of undefined behaviour, should either happen.    *)
(***************************************************************************)
\* a variant: a skipped line switches the line buffer as a record does
SkipLine_switches(l) ==
    /\ l.k = "hdr" \/ Bit(l.flag, 256) \/ Bit(l.flag, 2048)
    /\ LET c == IF l.k = "hdr" THEN "nhead"
                ELSE IF Bit(l.flag, 256) THEN "nsec" ELSE "nsupp"
       IN  /\ SetLocals([Locals EXCEPT !.nline = nline + 1, !.cnt = Bump(cnt, {c}),
                                       !.line1 = ~line1,
                                       !.linebuf = Fgets(linebuf, line1, nline + 1)])
           /\ last' = [NoLast EXCEPT !.step = "skip", !.route = c]
    /\ UNCHANGED <<status, write_buf, rec_fh, meta_fh, templates, nshort, hist>>

SkipLine(l) ==
    /\ l.k = "hdr" \/ Bit(l.flag, 256) \/ Bit(l.flag, 2048)
    /\ LET c == IF l.k = "hdr" THEN "nhead"
                ELSE IF Bit(l.flag, 256) THEN "nsec" ELSE "nsupp"
       IN  /\ SetLocals([Locals EXCEPT !.nline = nline + 1, !.cnt = Bump(cnt, {c}),
                                       !.linebuf = Fgets(linebuf, line1, nline + 1)])
           /\ last' = [NoLast EXCEPT !.step = "skip", !.route = c]
    /\ UNCHANGED <<status, write_buf, rec_fh, meta_fh, templates, nshort, hist>>

\* a variant: binding a pair leaves the pending mark of the earlier mate
RecordLine_keeps_pending(l) ==
    /\ l.k = "aln" /\ ~Bit(l.flag, 256) /\ ~Bit(l.flag, 2048)
    /\ LET al_cur == IF al_cur1 THEN al1 ELSE al2
           al_prev == IF al_cur1 THEN al2 ELSE al1
           cur   == [valid |-> FALSE, flag |-> l.flag, typ |-> l.typ,
                     line |-> nline + 1, rest |-> l.rest]
           mu    == MateUp(cur, al_prev)
           route == Classify(cur, mu)
           \* the slots once mating has cleared the pending mark
           slot(c, p) == IF al_cur1 THEN [al1 |-> c, al2 |-> p] ELSE [al1 |-> p, al2 |-> c]
           prev1 == al_prev
           loc0  == [Locals EXCEPT !.nline = nline + 1, !.line1 = ~line1,
                                   !.linebuf = Fgets(linebuf, line1, nline + 1)]
           loc1  == [loc0 EXCEPT !.al_cur1 = ~al_cur1,
                                 !.al1 = slot(cur, al_prev).al1,
                                 !.al2 = slot(cur, al_prev).al2]
           loc2  == [loc1 EXCEPT !.al1 = slot(cur, prev1).al1,
                                 !.al2 = slot(cur, prev1).al2,
                                 !.cnt = Bump(cnt, IF mu.paired THEN {"npair"} ELSE {})]
           ev    == [NoLast EXCEPT !.step = "aln", !.cur = cur, !.prev = Held(al_prev),
                                   !.paired = mu.paired,
                                   !.m1 = mu.m1, !.m2 = mu.m2, !.base = Len(write_buf)]
       IN  IF al_cur.valid /\ ~ndebug
           THEN \* assert(!al_cur.valid)
                /\ SetLocals(loc0)
                /\ status' = "assert"
                /\ last' = [ev EXCEPT !.route = "assert", !.paired = FALSE,
                                      !.m1 = ClearedAl, !.m2 = ClearedAl]
                /\ UNCHANGED <<write_buf, rec_fh, meta_fh, templates, nshort, hist>>
           ELSE IF mu.err # ""
           THEN /\ SetLocals(loc1)
                /\ status' = mu.err
                /\ last' = [ev EXCEPT !.route = mu.err]
                /\ UNCHANGED <<write_buf, rec_fh, meta_fh, templates, nshort, hist>>
           ELSE IF route = "assert"
           THEN /\ SetLocals(loc2)
                /\ status' = "assert"
                /\ last' = [ev EXCEPT !.route = "assert"]
                /\ UNCHANGED <<write_buf, rec_fh, meta_fh, templates, nshort, hist>>
           ELSE IF route \notin Lanes
           THEN /\ SetLocals([loc2 EXCEPT
                       !.cnt = Bump(loc2.cnt, RouteCounters(cur, route)),
                       !.al1 = IF route = "pending" /\ al_cur1
                               THEN [cur EXCEPT !.valid = TRUE] ELSE @,
                       !.al2 = IF route = "pending" /\ ~al_cur1
                               THEN [cur EXCEPT !.valid = TRUE] ELSE @])
                /\ last' = [ev EXCEPT !.route = route]
                /\ UNCHANGED <<status, write_buf, rec_fh, meta_fh, templates, nshort, hist>>
           ELSE LET first == cnt[LaneCounter(route)] = 0 /\ do_features
                    loc3 == [loc2 EXCEPT
                               !.cnt = Bump(loc2.cnt, RouteCounters(cur, route)),
                               !.head[route] = IF first THEN TRUE ELSE @,
                               !.nztz[route] =
                                   IF first
                                   THEN infer_num_ztzs(HeadRecord(route, cur, mu))
                                   ELSE @]
                IN  \E io \in IoFor(route, cur, mu), ub \in UbFor(route, cur, mu) :
                    LET r == EmitUnit(route, cur, mu, write_buf, io, ub) IN
                    /\ SetLocals(loc3)
                    /\ status' = CASE r.rc = "ok" -> "run"
                                   [] r.rc = "short" -> "ret"
                                   [] OTHER -> r.rc
                    /\ write_buf' = r.wb
                    /\ rec_fh' = [rec_fh EXCEPT
                           ![route] = @ + IF r.rc = "ok" /\ r.fl # <<>>
                                          THEN RecordsPerUnit(route) ELSE 0]
                    /\ templates' = [templates EXCEPT ![route] = @ + r.tm]
                    /\ last' = [ev EXCEPT !.route = route, !.lane = route, !.fl = r.fl,
                                          !.nw = r.nw, !.rc = r.rc, !.tm = r.tm]
                    /\ nshort' = nshort + IF r.rc = "short" THEN 1 ELSE 0
                    /\ hist' = [hist EXCEPT !.last_id[route] =
                                   IF r.rc = "ok" /\ r.fl # <<>>
                                   THEN LastLineId(route, cur, mu) ELSE @]
                    /\ UNCHANGED meta_fh

RecordLine(l) ==
    /\ l.k = "aln" /\ ~Bit(l.flag, 256) /\ ~Bit(l.flag, 2048)
    /\ LET al_cur == IF al_cur1 THEN al1 ELSE al2
           al_prev == IF al_cur1 THEN al2 ELSE al1
           cur   == [valid |-> FALSE, flag |-> l.flag, typ |-> l.typ,
                     line |-> nline + 1, rest |-> l.rest]
           mu    == MateUp(cur, al_prev)
           route == Classify(cur, mu)
           \* the slots once mating has cleared the pending mark
           slot(c, p) == IF al_cur1 THEN [al1 |-> c, al2 |-> p] ELSE [al1 |-> p, al2 |-> c]
           prev1 == IF mu.paired THEN [al_prev EXCEPT !.valid = FALSE] ELSE al_prev
           loc0  == [Locals EXCEPT !.nline = nline + 1, !.line1 = ~line1,
                                   !.linebuf = Fgets(linebuf, line1, nline + 1)]
           loc1  == [loc0 EXCEPT !.al_cur1 = ~al_cur1,
                                 !.al1 = slot(cur, al_prev).al1,
                                 !.al2 = slot(cur, al_prev).al2]
           loc2  == [loc1 EXCEPT !.al1 = slot(cur, prev1).al1,
                                 !.al2 = slot(cur, prev1).al2,
                                 !.cnt = Bump(cnt, IF mu.paired THEN {"npair"} ELSE {})]
           ev    == [NoLast EXCEPT !.step = "aln", !.cur = cur, !.prev = Held(al_prev),
                                   !.paired = mu.paired,
                                   !.m1 = mu.m1, !.m2 = mu.m2, !.base = Len(write_buf)]
       IN  IF al_cur.valid /\ ~ndebug
           THEN \* assert(!al_cur.valid)
                /\ SetLocals(loc0)
                /\ status' = "assert"
                /\ last' = [ev EXCEPT !.route = "assert", !.paired = FALSE,
                                      !.m1 = ClearedAl, !.m2 = ClearedAl]
                /\ UNCHANGED <<write_buf, rec_fh, meta_fh, templates, nshort, hist>>
           ELSE IF mu.err # ""
           THEN /\ SetLocals(loc1)
                /\ status' = mu.err
                /\ last' = [ev EXCEPT !.route = mu.err]
                /\ UNCHANGED <<write_buf, rec_fh, meta_fh, templates, nshort, hist>>
           ELSE IF route = "assert"
           THEN /\ SetLocals(loc2)
                /\ status' = "assert"
                /\ last' = [ev EXCEPT !.route = "assert"]
                /\ UNCHANGED <<write_buf, rec_fh, meta_fh, templates, nshort, hist>>
           ELSE IF route \notin Lanes
           THEN /\ SetLocals([loc2 EXCEPT
                       !.cnt = Bump(loc2.cnt, RouteCounters(cur, route)),
                       !.al1 = IF route = "pending" /\ al_cur1
                               THEN [cur EXCEPT !.valid = TRUE] ELSE @,
                       !.al2 = IF route = "pending" /\ ~al_cur1
                               THEN [cur EXCEPT !.valid = TRUE] ELSE @])
                /\ last' = [ev EXCEPT !.route = route]
                /\ UNCHANGED <<status, write_buf, rec_fh, meta_fh, templates, nshort, hist>>
           ELSE LET first == cnt[LaneCounter(route)] = 0 /\ do_features
                    loc3 == [loc2 EXCEPT
                               !.cnt = Bump(loc2.cnt, RouteCounters(cur, route)),
                               !.head[route] = IF first THEN TRUE ELSE @,
                               !.nztz[route] =
                                   IF first
                                   THEN infer_num_ztzs(HeadRecord(route, cur, mu))
                                   ELSE @]
                IN  \E io \in IoFor(route, cur, mu), ub \in UbFor(route, cur, mu) :
                    LET r == EmitUnit(route, cur, mu, write_buf, io, ub) IN
                    /\ SetLocals(loc3)
                    /\ status' = CASE r.rc = "ok" -> "run"
                                   [] r.rc = "short" -> "ret"
                                   [] OTHER -> r.rc
                    /\ write_buf' = r.wb
                    /\ rec_fh' = [rec_fh EXCEPT
                           ![route] = @ + IF r.rc = "ok" /\ r.fl # <<>>
                                          THEN RecordsPerUnit(route) ELSE 0]
                    /\ templates' = [templates EXCEPT ![route] = @ + r.tm]
                    /\ last' = [ev EXCEPT !.route = route, !.lane = route, !.fl = r.fl,
                                          !.nw = r.nw, !.rc = r.rc, !.tm = r.tm]
                    /\ nshort' = nshort + IF r.rc = "short" THEN 1 ELSE 0
                    /\ hist' = [hist EXCEPT !.last_id[route] =
                                   IF r.rc = "ok" /\ r.fl # <<>>
                                   THEN LastLineId(route, cur, mu) ELSE @]
                    /\ UNCHANGED meta_fh

ReadLine ==
    /\ status = "run"
    /\ total < MaxLines
    /\ total' = total + 1
    /\ \E l \in LinesAfter(IF al_cur1 THEN al2 ELSE al1) :
          \/ SkipLine(l)
          \/ RecordLine(l)
    /\ UNCHANGED <<ndebug, do_features, keep_templates, sam, input, xs, pf>>

(***************************************************************************)
(* sam_pass1, lines 1498-1532: end of the stream; the metadata is written. *)
(***************************************************************************)
print_header(L, n_ztz_fields, nrow) == [n_ztz_fields |-> n_ztz_fields, nrow |-> nrow]

EndOfFile ==
    /\ status = "run"
    /\ status' = "ret"
    /\ meta_fh' = [L \in Lanes |->
          IF head[L]
          THEN Append(meta_fh[L],
                      print_header(L, nztz[L],
                                   cnt[LaneCounter(L)] * RecordsPerUnit(L)))
          ELSE meta_fh[L]]
    /\ last' = [NoLast EXCEPT !.step = "eof"]
    /\ UNCHANGED <<ndebug, do_features, keep_templates, sam, total, nline, line1,
                   al_cur1, al1, al2, cnt, head, nztz, linebuf, write_buf, rec_fh,
                   templates, nshort, hist, input, xs, pf>>

(***************************************************************************)
(* main, lines 1760-1803: the return value of sam_pass1 is dropped; the    *)
(* next SAM file is parsed, or the files are closed and main returns 0.    *)
(***************************************************************************)
NextSam ==
    /\ status = "ret"
    /\ IF sam < MaxSams
       THEN /\ sam' = sam + 1
            /\ status' = "run"
            /\ SetLocals(InitLocals)
       ELSE /\ status' = "done"
            /\ SetLocals(InitLocals)
            /\ UNCHANGED sam
    /\ last' = [NoLast EXCEPT !.step = "main"]
    /\ hist' = [hist EXCEPT !.file_start = total]
    /\ UNCHANGED <<ndebug, do_features, keep_templates, total, write_buf, rec_fh,
                   meta_fh, templates, nshort, input, xs, pf>>

(***************************************************************************)
(* Edit transcripts.  An alignment is a list of runs <<run, op>> over the   *)
(* operations of an extended CIGAR.  It is given to the program as an       *)
(* extended CIGAR, or as a plain CIGAR (M for = and X) with an MD:Z string, *)
(* a list of tokens: a number (a maximal run of digits), a letter, or the    *)
(* caret that starts a deletion.                                            *)
(***************************************************************************)
ExtOps == {"=", "X", "I", "D", "N", "S", "H"}

RunSeqs(n) == UNION {[1..m -> (1..MaxRun) \X ExtOps] : m \in 1..n}

\* run lists in which no operation follows itself
Alignments == {a \in RunSeqs(MaxOps) : \A i \in 1..(Len(a) - 1) : a[i][2] # a[i + 1][2]}

Rep(c, n) == [i \in 1..n |-> c]

Min(a, b) == IF a < b THEN a ELSE b

\* the plain CIGAR of an alignment: = and X become M, adjacent M runs merge
RECURSIVE PlainCigar(_)
PlainCigar(a) ==
    IF a = <<>> THEN <<>>
    ELSE LET op   == IF a[1][2] \in {"=", "X"} THEN "M" ELSE a[1][2]
             rest == PlainCigar(Tail(a))
         IN  IF op = "M" /\ rest # <<>> /\ rest[1][2] = "M"
             THEN <<<<a[1][1] + rest[1][1], "M">>>> \o Tail(rest)
             ELSE <<<<a[1][1], op>>>> \o rest

(***************************************************************************)
(* Characters.  A C string is the sequence of its characters, one string   *)
(* per character; NUL ends it.                                             *)
(***************************************************************************)
NUL == ""

DigitChars == <<"0", "1", "2", "3", "4", "5", "6", "7", "8", "9">>

isdigit(c) == \E d \in 1..10 : DigitChars[d] = c

\* c - '0'
DigitVal(c) == (CHOOSE d \in 1..10 : DigitChars[d] = c) - 1

\* *(s + i); the terminator at the end, and after it in this model
CharAt(s, i) == IF i < Len(s) THEN s[i + 1] ELSE NUL

\* strncmp(s + i, t, strlen(t)) == 0
strncmp_eq(s, i, t) == \A j \in 0..(Len(t) - 1) : CharAt(s, i + j) = t[j + 1]

RECURSIVE ParseNum(_, _, _)
\* while(isdigit(*qname_cur)) { v *= 10; v += *qname_cur++ - '0'; }
ParseNum(s, i, v) ==
    IF isdigit(CharAt(s, i))
    THEN ParseNum(s, i + 1, 10 * v + DigitVal(CharAt(s, i)))
    ELSE [v |-> v, i |-> i]

RECURSIVE ToDigits(_)
\* the decimal rendering of n
ToDigits(n) == IF n < 10 THEN <<DigitChars[n + 1]>>
               ELSE ToDigits(n \div 10) \o <<DigitChars[(n % 10) + 1]>>

\* the tokens of an MD:Z string
Num(n) == <<"9", n>>

Letter == <<"A", 0>>

Caret == <<"^", 0>>

\* the MD:Z string of runs i.. of an alignment, after count matching bases:
\* the number of matches ahead of each mismatched base and each deletion
RECURSIVE MdzFrom(_, _, _)
MdzFrom(a, i, count) ==
    IF i > Len(a) THEN <<Num(count)>>
    ELSE LET run == a[i][1]
             op  == a[i][2]
         IN  CASE op = "=" -> MdzFrom(a, i + 1, count + run)
               [] op = "X" -> <<Num(count), Letter>>
                              \o [j \in 1..(2 * (run - 1)) |->
                                     IF j % 2 = 1 THEN Num(0) ELSE Letter]
                              \o MdzFrom(a, i + 1, 0)
               [] op = "D" -> <<Num(count), Caret>> \o Rep(Letter, run)
                              \o MdzFrom(a, i + 1, 0)
               [] OTHER -> MdzFrom(a, i + 1, count)

RECURSIVE MdzString(_)
\* the characters of the fields of an MD:Z tag
MdzString(t) ==
    IF t = <<>> THEN <<>>
    ELSE (CASE t[1][1] = "9" -> ToDigits(t[1][2])
            [] t[1] = Caret -> <<"^">>
            [] OTHER -> <<"A">>) \o MdzString(Tail(t))

\* the MD:Z string of the first k runs of an alignment
MdzOf(a, k) == MdzString(MdzFrom(SubSeq(a, 1, k), 1, 0))

(***************************************************************************)
(* Alignment::parse_cigar, cigar_to_edit_xscript.  A result is st ("ok",    *)
(* "none": nothing built, "throw", "assert", "crash") and the transcript.   *)
(***************************************************************************)
cigar_to_edit_xscript(cigar) ==
    LET RECURSIVE Expand(_)
        Expand(i) == IF i > Len(cigar) THEN <<>>
                     ELSE Rep(cigar[i][2], cigar[i][1]) \o Expand(i + 1)
    IN  IF ~ndebug /\ \E i \in 1..Len(cigar) : cigar[i][2] \in {"M", "P"}
        THEN [st |-> "assert", xs |-> <<>>]
        ELSE [st |-> "ok", xs |-> Expand(1)]

cigar_equal_x(cigar) == \E i \in 1..Len(cigar) : cigar[i][2] \in {"X", "="}

parse_cigar(cigar) ==
    IF cigar_equal_x(cigar) THEN cigar_to_edit_xscript(cigar)
    ELSE [st |-> "none", xs |-> <<>>]

(***************************************************************************)
(* Alignment::mdz_to_list: the runs of an MD:Z string, op 0 a match run, 1  *)
(* a run of mismatched bases, 2 a deletion.                                 *)
(***************************************************************************)
AlphaChars ==
    {"A", "B", "C", "D", "E", "F", "G", "H", "I", "J", "K", "L", "M", "N", "O", "P",
     "Q", "R", "S", "T", "U", "V", "W", "X", "Y", "Z", "a", "b", "c", "d", "e", "f",
     "g", "h", "i", "j", "k", "l", "m", "n", "o", "p", "q", "r", "s", "t", "u", "v",
     "w", "x", "y", "z"}

isalpha(c) == c \in AlphaChars

RECURSIVE AlphaRun(_, _)
\* the number of letters of mdz from the 0-based position i on
AlphaRun(mdz, i) == IF i < Len(mdz) /\ isalpha(mdz[i + 1]) THEN 1 + AlphaRun(mdz, i + 1) ELSE 0

\* OpRunOffset::init
OpRunOffset(op, run, offset) == [op |-> op, run |-> run, offset |-> offset]

RECURSIVE mdz_to_list_loop(_, _, _, _)
\* the loop from the 0-based position i on; st is "hang" when the loop meets a
\* character it does not step over
mdz_to_list_loop(mdz, i, mdz_oro, mdz_char) ==
    IF i >= Len(mdz) THEN [st |-> "ok", oro |-> mdz_oro, mdz_char |-> mdz_char]
    ELSE IF isdigit(mdz[i + 1])
    THEN LET n == ParseNum(mdz, i, 0)
         IN  mdz_to_list_loop(mdz, n.i,
                 IF n.v > 0 THEN Append(mdz_oro, OpRunOffset(0, n.v, -1)) ELSE mdz_oro,
                 mdz_char)
    ELSE IF isalpha(mdz[i + 1])
    THEN LET run   == AlphaRun(mdz, i)
             chars == mdz_char \o SubSeq(mdz, i + 1, i + run)
         IN  mdz_to_list_loop(mdz, i + run,
                 Append(mdz_oro, OpRunOffset(1, run, Len(chars) - run)), chars)
    ELSE IF mdz[i + 1] = "^"
    THEN LET run   == AlphaRun(mdz, i + 1)
             chars == mdz_char \o SubSeq(mdz, i + 2, i + 1 + run)
         IN  mdz_to_list_loop(mdz, i + 1 + run,
                 Append(mdz_oro, OpRunOffset(2, run, Len(chars) - run)), chars)
    ELSE [st |-> "hang", oro |-> mdz_oro, mdz_char |-> mdz_char]

\* a variant: the offset of a run is the size of the side buffer after it
mdz_to_list_end_offset(mdz) ==
    LET r == mdz_to_list_loop(mdz, 0, <<>>, <<>>)
    IN  [r EXCEPT !.oro = [j \in DOMAIN r.oro |->
                             [r.oro[j] EXCEPT !.offset = IF @ = -1 THEN -1
                                                         ELSE @ + r.oro[j].run]]]

mdz_to_list(mdz) == mdz_to_list_loop(mdz, 0, <<>>, <<>>)

(***************************************************************************)
(* Alignment::cigar_and_mdz_to_edit_xscript.  mdo is the cursor into the    *)
(* MD:Z runs oro (0-based, as in the code).  ub is what the read of         *)
(* mdz_oro[mdo] past the end of the list gives: a crash, or a run length.   *)
(***************************************************************************)
\* the loop over one M run (lines 336-362)
RECURSIVE MRun(_, _, _, _)
MRun(runleft, mdo, oro, x) ==
    IF runleft > 0 /\ mdo < Len(oro)
    THEN LET op_m     == oro[mdo + 1].op
             run_m    == oro[mdo + 1].run
             run_comb == Min(runleft, run_m)
             oro1     == [oro EXCEPT ![mdo + 1].run = run_m - run_comb]
             mdo1     == IF run_comb < run_m THEN mdo ELSE mdo + 1
         IN  IF ~ndebug /\ (op_m = 2 \/ (op_m = 1 /\ run_m # run_comb))
             THEN [st |-> "assert", mdo |-> mdo, oro |-> oro, xs |-> x]
             ELSE IF op_m = 0
             THEN MRun(runleft - run_comb, mdo1,
                       IF run_comb < run_m THEN oro1 ELSE oro, x \o Rep("=", run_comb))
             ELSE MRun(runleft - run_comb, mdo1,
                       IF run_comb < run_m THEN oro1 ELSE oro, x \o Rep("X", run_m))
    ELSE [st |-> "ok", mdo |-> mdo, oro |-> oro, xs |-> x]

\* the loop over the CIGAR operations (lines 331-398) and the end (399-400)
RECURSIVE Walk(_, _, _, _, _, _)
Walk(cigar, i, mdo, oro, x, ub) ==
    IF i > Len(cigar)
    THEN IF ~ndebug /\ mdo # Len(oro) THEN [st |-> "assert", xs |-> x]
         ELSE [st |-> "ok", xs |-> x, mdo |-> mdo, oro |-> oro]
    ELSE LET cop  == cigar[i][2]
             crun == cigar[i][1]
         IN  CASE cop = "M" ->
                    LET m == MRun(crun, mdo, oro, x)
                    IN  IF m.st # "ok" THEN [st |-> m.st, xs |-> m.xs]
                        ELSE Walk(cigar, i + 1, m.mdo, m.oro, m.xs, ub)
               [] cop = "D" ->
                    IF mdo >= Len(oro)
                    THEN IF ub[1] = "crash" THEN [st |-> "crash", xs |-> x]
                         ELSE IF ~ndebug THEN [st |-> "assert", xs |-> x]
                         ELSE Walk(cigar, i + 1, mdo + 1, oro, x \o Rep("D", ub[2]), ub)
                    ELSE IF ~ndebug /\ (oro[mdo + 1].op # 2 \/ oro[mdo + 1].run # crun)
                    THEN [st |-> "assert", xs |-> x]
                    ELSE Walk(cigar, i + 1, mdo + 1, oro, x \o Rep("D", oro[mdo + 1].run), ub)
               [] cop \in {"I", "N", "S"} -> Walk(cigar, i + 1, mdo, oro, x \o Rep(cop, crun), ub)
               [] cop = "H" -> Walk(cigar, i + 1, mdo, oro, x, ub)
               [] OTHER -> [st |-> "throw", xs |-> x]

cigar_and_mdz_to_edit_xscript(cigar, oro, ub) == Walk(cigar, 1, 0, oro, <<>>, ub)

\* parse_cigar, then parse_extra on an MD:Z tag (lines 200-209)
parse_extra(cigar, mdz, ub) ==
    IF ~cigar_equal_x(cigar)
    THEN (IF mdz_to_list(mdz).st = "hang" THEN [st |-> "hang", xs |-> <<>>]
          ELSE cigar_and_mdz_to_edit_xscript(cigar, mdz_to_list(mdz).oro, ub))
    ELSE parse_cigar(cigar)

\* whether the walk reads mdz_oro past its end: a D with the cursor at the end
RECURSIVE ReadsPastEnd(_, _, _, _)
ReadsPastEnd(cigar, i, mdo, oro) ==
    IF i > Len(cigar) THEN FALSE
    ELSE CASE cigar[i][2] = "M" ->
                LET m == MRun(cigar[i][1], mdo, oro, <<>>)
                IN  m.st = "ok" /\ ReadsPastEnd(cigar, i + 1, m.mdo, m.oro)
           [] cigar[i][2] = "D" ->
                IF mdo >= Len(oro) THEN TRUE
                ELSE (ndebug \/ (oro[mdo + 1].op = 2 /\ oro[mdo + 1].run = cigar[i][1]))
                     /\ ReadsPastEnd(cigar, i + 1, mdo + 1, oro)
           [] cigar[i][2] \in {"I", "N", "S", "H"} -> ReadsPastEnd(cigar, i + 1, mdo, oro)
           [] OTHER -> FALSE

UbRuns(cigar, mdz) ==
    IF ReadsPastEnd(cigar, 1, 0, mdz_to_list(mdz).oro)
    THEN {<<"crash", 0>>} \cup {<<"run", g>> : g \in 0..MaxRun} ELSE {<<"run", 0>>}

(***************************************************************************)
(* The two paths on one alignment a: the direct one on its extended CIGAR,  *)
(* the reconciliation on the plain CIGAR of its first c runs and the MD:Z   *)
(* string of its first k runs (both of the whole alignment when c and k are *)
(* Len(a)).                                                                 *)
(***************************************************************************)
NotBuilt == [st |-> "", xs |-> <<>>]

\* no function of Alignment is being applied
PfOff == [f |-> "", arg |-> <<>>, res |-> <<>>]

XsOff == [a |-> <<>>, c |-> 0, k |-> 0, direct |-> NotBuilt, recon |-> NotBuilt]

\* the CIGAR string given to the reconciliation: the first c runs, plain
ReconCigar == PlainCigar(SubSeq(xs.a, 1, xs.c))

DirectPath ==
    /\ status = "xs"
    /\ xs.direct = NotBuilt
    /\ xs' = [xs EXCEPT !.direct = parse_cigar(xs.a)]
    /\ UNCHANGED <<status, ndebug, do_features, keep_templates, sam, total, nline, line1,
                   al_cur1, al1, al2, cnt, head, nztz, linebuf, write_buf, rec_fh,
                   meta_fh, templates, last, nshort, hist, input, pf>>

ReconcilePath ==
    /\ status = "xs"
    /\ xs.recon = NotBuilt
    /\ \E ub \in UbRuns(ReconCigar, MdzOf(xs.a, xs.k)) :
          xs' = [xs EXCEPT !.recon = parse_extra(ReconCigar, MdzOf(xs.a, xs.k), ub)]
    /\ UNCHANGED <<status, ndebug, do_features, keep_templates, sam, total, nline, line1,
                   al_cur1, al1, al2, cnt, head, nztz, linebuf, write_buf, rec_fh,
                   meta_fh, templates, last, nshort, hist, input, pf>>

\* the template files of the lanes: main declares them with FILEDEC(..., false),
\* which leaves the handle NULL and opens nothing
omod_fh == [L \in Lanes |-> "NULL"]

\* the rows that the print call of the last unit wrote to the template file of
\* its lane: one fprintf, when fh_model is not NULL
ModelRows ==
    IF last.step = "aln" /\ last.lane \in Lanes /\ last.rc = "ok"
       /\ omod_fh[last.lane] # "NULL"
    THEN 1 ELSE 0

\* the exit status of the process
ExitStatus == CASE status = "done" -> 0
                [] status \in {"throw", "assert", "crash"} -> 134
                [] OTHER -> -1

\* the locals of sam_pass1 before the first line is read
SetInit ==
    /\ nline = 0
    /\ line1 = TRUE
    /\ al_cur1 = TRUE
    /\ al1 = ClearedAl
    /\ al2 = ClearedAl
    /\ cnt = [c \in Counters |-> 0]
    /\ head = [L \in Lanes |-> FALSE]
    /\ nztz = [L \in Lanes |-> 0]
    /\ linebuf = [b \in {1, 2} |-> 0]

InitRun ==
    /\ status = "run"
    /\ ndebug \in BOOLEAN
    \* modes "fs" (either build) and "i" (feature and template output off)
    /\ do_features \in BOOLEAN
    /\ keep_templates = do_features
    /\ ~do_features => ndebug
    /\ sam = 1
    /\ total = 0
    /\ nline = 0
    /\ line1 = TRUE
    /\ al_cur1 = TRUE
    /\ al1 = ClearedAl
    /\ al2 = ClearedAl
    /\ cnt = [c \in Counters |-> 0]
    /\ head = [L \in Lanes |-> FALSE]
    /\ nztz = [L \in Lanes |-> 0]
    /\ linebuf = [b \in {1, 2} |-> 0]
    /\ write_buf = <<>>
    /\ rec_fh = [L \in Lanes |-> 0]
    /\ meta_fh = [L \in Lanes |-> <<>>]
    /\ templates = [L \in Lanes |-> 0]
    /\ last = NoLast
    /\ nshort = 0
    /\ hist = NoHist
    /\ xs = XsOff
    /\ pf = PfOff

Next == ReadLine \/ EndOfFile \/ NextSam

\* runs over records that differ in their tags and fields
Init == InitRun /\ input = "payload"

Spec == Init /\ [][Next]_pvars

\* runs over records of simulated reads, whose names carry a type tag
InitTags == InitRun /\ input = "tags"

SpecTags == InitTags /\ [][Next]_pvars

\* the construction of edit transcripts, over all alignments within the bounds
InitXs ==
    /\ status = "xs"
    /\ ndebug \in BOOLEAN
    /\ do_features = FALSE
    /\ keep_templates = FALSE
    /\ sam = 1
    /\ total = 0
    /\ nline = 0
    /\ line1 = TRUE
    /\ al_cur1 = TRUE
    /\ al1 = ClearedAl
    /\ al2 = ClearedAl
    /\ cnt = [c \in Counters |-> 0]
    /\ head = [L \in Lanes |-> FALSE]
    /\ nztz = [L \in Lanes |-> 0]
    /\ linebuf = [b \in {1, 2} |-> 0]
    /\ write_buf = <<>>
    /\ rec_fh = [L \in Lanes |-> 0]
    /\ meta_fh = [L \in Lanes |-> <<>>]
    /\ templates = [L \in Lanes |-> 0]
    /\ last = NoLast
    /\ nshort = 0
    /\ hist = NoHist
    /\ input = "xs"
    /\ \E a \in Alignments : \E c \in 1..Len(a) : \E k \in 0..Len(a) :
          xs = [a |-> a, c |-> c, k |-> k, direct |-> NotBuilt, recon |-> NotBuilt]
    /\ pf = PfOff

NextXs == DirectPath \/ ReconcilePath

SpecXs == InitXs /\ [][NextXs]_pvars

(***************************************************************************)
(* Functions of Alignment, each applied to every argument within the       *)
(* bounds.  No stream is read: the locals of sam_pass1 keep the values     *)
(* they have before the first line.                                        *)
(***************************************************************************)
NoStream(inp) ==
    /\ status = "pf"
    /\ ndebug \in BOOLEAN
    /\ do_features = FALSE
    /\ keep_templates = FALSE
    /\ sam = 1
    /\ total = 0
    /\ SetInit
    /\ write_buf = <<>>
    /\ rec_fh = [L \in Lanes |-> 0]
    /\ meta_fh = [L \in Lanes |-> <<>>]
    /\ templates = [L \in Lanes |-> 0]
    /\ last = NoLast
    /\ nshort = 0
    /\ hist = NoHist
    /\ input = inp
    /\ xs = XsOff

\* f is applied to the argument, once
Apply(f, res) ==
    /\ status = "pf"
    /\ pf.f = f
    /\ pf.res = <<>>
    /\ pf' = [pf EXCEPT !.res = res]
    /\ UNCHANGED <<status, ndebug, do_features, keep_templates, sam, total, nline,
                   line1, al_cur1, al1, al2, cnt, head, nztz, linebuf, write_buf,
                   rec_fh, meta_fh, templates, last, nshort, hist, input, xs>>

(***************************************************************************)
(* calc_qual_averages.  qual is the QUAL field as character codes, len the *)
(* length of SEQ, left_clip and right_clip what parse_cigar left.  An      *)
(* average is the pair <<total, count>> of the division that computes it;  *)
(* the sentinel 100.0 is <<100, 1>>.                                       *)
(***************************************************************************)
MaxQLen == 3

QualChars == {33, 35, 73}

QualInputs ==
    { [qual |-> q, len |-> n, left_clip |-> l, right_clip |-> r] :
        n \in 1..MaxQLen, q \in UNION { [1..m -> QualChars] : m \in 1..MaxQLen },
        l \in 0..MaxQLen, r \in 0..MaxQLen }

\* the assertions at the head of the function, and QUAL as long as SEQ
QualArgs == { a \in QualInputs : Len(a.qual) = a.len /\ a.left_clip + a.right_clip < a.len }

RECURSIVE QualTotal(_, _)
\* the sum of qual[i] - 33 over the 0-based positions i of I
QualTotal(qual, I) ==
    IF I = {} THEN 0
    ELSE LET i == CHOOSE j \in I : TRUE
         IN  (qual[i + 1] - 33) + QualTotal(qual, I \ {i})

\* a variant: the sentinel only when no base is clipped
calc_qual_averages_one_clip(al) ==
    LET nclipped == al.left_clip + al.right_clip
        clipped  == { i \in 0..(al.len - 1) :
                        i < al.left_clip \/ i >= al.len - 1 - al.right_clip }
        tot_c    == QualTotal(al.qual, clipped)
        tot_a    == QualTotal(al.qual, (0..(al.len - 1)) \ clipped)
    IN  IF nclipped > 0
        THEN [tot_aligned_qual |-> tot_a, avg_aligned_qual |-> <<tot_a, al.len - nclipped>>,
              tot_clipped_qual |-> tot_c, avg_clipped_qual |-> <<tot_c, nclipped>>,
              left_clip |-> al.left_clip, right_clip |-> al.right_clip]
        ELSE [tot_aligned_qual |-> tot_a, avg_aligned_qual |-> <<tot_a, al.len - nclipped>>,
              tot_clipped_qual |-> 0, avg_clipped_qual |-> <<100, 1>>,
              left_clip |-> 0, right_clip |-> 0]

calc_qual_averages(al) ==
    LET nclipped == al.left_clip + al.right_clip
        clipped  == { i \in 0..(al.len - 1) :
                        i < al.left_clip \/ i >= al.len - 1 - al.right_clip }
        tot_c    == QualTotal(al.qual, clipped)
        tot_a    == QualTotal(al.qual, (0..(al.len - 1)) \ clipped)
    IN  IF nclipped > 1
        THEN [tot_aligned_qual |-> tot_a, avg_aligned_qual |-> <<tot_a, al.len - nclipped>>,
              tot_clipped_qual |-> tot_c, avg_clipped_qual |-> <<tot_c, nclipped>>,
              left_clip |-> al.left_clip, right_clip |-> al.right_clip]
        ELSE [tot_aligned_qual |-> tot_a, avg_aligned_qual |-> <<tot_a, al.len - nclipped>>,
              tot_clipped_qual |-> 0, avg_clipped_qual |-> <<100, 1>>,
              left_clip |-> 0, right_clip |-> 0]

CalcQual == Apply("calc_qual_averages", calc_qual_averages(pf.arg))

InitQual ==
    /\ NoStream("qual")
    /\ \E a \in QualArgs : pf = [f |-> "calc_qual_averages", arg |-> a, res |-> <<>>]

NextQual == CalcQual

SpecQual == InitQual /\ [][NextQual]_pvars

(***************************************************************************)
(* Alignment::fragment_length with lpos and rpos, and the cap that         *)
(* print_paired_helper puts on it.  A mate is its position and its         *)
(* extended CIGAR; its transcript is what parse_cigar built, its clips are *)
(* what parse_cigar set and calc_qual_averages left.  The arithmetic is in *)
(* size_t: a difference that is not negative as an integer is that integer *)
(* whatever wrapped on the way, and dn.pos >= up.pos keeps it so.          *)
(***************************************************************************)
max_allowed_fraglen == 50000

\* parse_cigar, lines 238-242: left_clip from a first S, right_clip from a
\* last S that is not the first operation
cigar_clips(cigar) ==
    [left_clip  |-> IF cigar[1][2] = "S" THEN cigar[1][1] ELSE 0,
     right_clip |-> IF Len(cigar) > 1 /\ cigar[Len(cigar)][2] = "S"
                    THEN cigar[Len(cigar)][1] ELSE 0]

\* the length of SEQ for a CIGAR
RECURSIVE ReadLen(_)
ReadLen(cigar) ==
    IF cigar = <<>> THEN 0
    ELSE (IF cigar[1][2] \in {"=", "X", "I", "S"} THEN cigar[1][1] ELSE 0)
         + ReadLen(Tail(cigar))

\* a mate once parse_from_rname_on has run: parse_cigar, then
\* calc_qual_averages, which may zero the clips
ParsedMate(m) ==
    LET c == cigar_clips(m.cigar)
        q == calc_qual_averages([qual |-> Rep(73, ReadLen(m.cigar)), len |-> ReadLen(m.cigar),
                                 left_clip |-> c.left_clip, right_clip |-> c.right_clip])
    IN  [pos |-> m.pos, cigar |-> m.cigar,
         left_clip |-> q.left_clip, right_clip |-> q.right_clip,
         edit_xscript |-> parse_cigar(m.cigar).xs]

lpos(al) == al.pos - al.left_clip

\* the number of S at the head of a transcript
RECURSIVE LeadingS(_)
LeadingS(x) == IF x # <<>> /\ x[1] = "S" THEN 1 + LeadingS(Tail(x)) ELSE 0

\* rpos: "while(*xs++ == 'S');" leaves xs one past the first symbol that is
\* not S.  With nothing but S before the terminator the scan leaves the list.
rpos(al, ub) ==
    LET x  == al.edit_xscript
        k  == LeadingS(x)
        mv == Cardinality({i \in (k + 2)..Len(x) : x[i] \in {"S", "D", "X", "="}})
    IN  IF k = Len(x)
        THEN IF ~ndebug THEN [st |-> "assert", v |-> 0]
             ELSE IF ub = "crash" THEN [st |-> "crash", v |-> 0]
             ELSE [st |-> "garbage", v |-> 0]
        ELSE IF k + 1 = Len(x) /\ ~ndebug THEN [st |-> "assert", v |-> 0]
        ELSE [st |-> "ok", v |-> al.pos + mv - 1]

fragment_length(a1, a2, ub) ==
    LET up == IF a1.pos < a2.pos THEN a1 ELSE a2
        dn == IF a1.pos < a2.pos THEN a2 ELSE a1
        r  == rpos(dn, ub)
    IN  IF r.st # "ok" THEN r ELSE [st |-> "ok", v |-> r.v - lpos(up) + 1]

\* print_paired_helper, lines 955-956
fraglen(a1, a2, ub) ==
    LET f == fragment_length(a1, a2, ub)
    IN  IF f.st # "ok" THEN f ELSE [f EXCEPT !.v = Min(max_allowed_fraglen, f.v)]

\* the extended CIGARs of the mates: soft clips around a body with = or X
FragBodies ==
    {a \in Alignments : /\ \A i \in 1..Len(a) : a[i][2] \in {"=", "X", "I", "D", "N"}
                        /\ cigar_equal_x(a)}

SoftClips == {<<>>} \cup {<<<<n, "S">>>> : n \in 1..MaxRun}

FragCigars == {l \o b \o t : l \in SoftClips, b \in FragBodies, t \in SoftClips}

\* the second mate has one body
FragCigars2 == {l \o <<<<2, "=">>>> \o t : l \in SoftClips, t \in SoftClips}

FragPositions == {5, 7, 60005}

FragArgs ==
    {[al1 |-> [pos |-> p1, cigar |-> c1], al2 |-> [pos |-> p2, cigar |-> c2]] :
        p1 \in FragPositions, c1 \in FragCigars, p2 \in {5, 7}, c2 \in FragCigars2}

FragmentLength ==
    \E ub \in {"crash", "value"} :
        Apply("fragment_length",
              fraglen(ParsedMate(pf.arg.al1), ParsedMate(pf.arg.al2), ub))

InitFrag ==
    /\ NoStream("frag")
    /\ \E a \in FragArgs : pf = [f |-> "fragment_length", arg |-> a, res |-> <<>>]

NextFrag == FragmentLength

SpecFrag == InitFrag /\ [][NextFrag]_pvars

(***************************************************************************)
(* infer_num_ztzs on the characters of a raw line from RNAME on, as fgets  *)
(* left it: the fields, a tab before each tag, the line terminator when    *)
(* the line has one.  Past the terminating NUL the buffer holds what       *)
(* earlier lines left or nothing defined: a scan that gets there crashes   *)
(* or returns some count.                                                  *)
(***************************************************************************)
TAB == "\t"

NL == "\n"

MaxTags == 2

RECURSIVE CountToNewline(_, _, _)
\* while(*cur++ != '\n') { if(*cur == ',') n_ztz_fields++; }
CountToNewline(line, i, n) ==
    IF i >= Len(line) THEN [past |-> TRUE, i |-> i, n |-> n]
    ELSE IF CharAt(line, i) = NL THEN [past |-> FALSE, i |-> i + 1, n |-> n]
    ELSE CountToNewline(line, i + 1, IF CharAt(line, i + 1) = "," THEN n + 1 ELSE n)

RECURSIVE ScanForZtz(_, _, _, _)
\* the loop of infer_num_ztzs with cur at offset i
ScanForZtz(line, i, n, ub) ==
    IF i > Len(line) THEN [st |-> IF ub = "crash" THEN "crash" ELSE "garbage", n |-> 0]
    ELSE IF CharAt(line, i) = NUL THEN [st |-> "ok", n |-> n]
    ELSE IF CharAt(line, i) # TAB THEN ScanForZtz(line, i + 1, n, ub)
    ELSE IF CharAt(line, i + 1) # "Z" THEN ScanForZtz(line, i + 2, n, ub)
    ELSE IF CharAt(line, i + 2) # "T" THEN ScanForZtz(line, i + 3, n, ub)
    ELSE IF ~strncmp_eq(line, i + 3, <<":", "Z", ":">>) THEN ScanForZtz(line, i + 3, n, ub)
    ELSE LET c == CountToNewline(line, i + 3, n)
         IN  IF c.past THEN [st |-> IF ub = "crash" THEN "crash" ELSE "garbage", n |-> 0]
             ELSE ScanForZtz(line, c.i, c.n, ub)

\* infer_num_ztzs on the characters of rest_of_line
infer_num_ztzs_chars(line, ub) == ScanForZtz(line, 0, 1, ub)

\* tags: ZT:Z with n values, and another tag with a value of n parts
ZtzTag(n) ==
    <<TAB, "Z", "T", ":", "Z", ":", "1">>
    \o (IF n > 1 THEN <<",", "2">> ELSE <<>>) \o (IF n > 2 THEN <<",", "3">> ELSE <<>>)

OtherTag(n) ==
    <<TAB, "X", "A", ":", "Z", ":", "a">> \o (IF n > 1 THEN <<",", "b">> ELSE <<>>)

\* a tag whose first letter is that of ZT:Z
ZsTag == <<TAB, "Z", "S", ":", "i", ":", "5">>

TagSet == {ZtzTag(n) : n \in 1..(MaxZtz + 1)} \cup {OtherTag(n) : n \in 1..2} \cup {ZsTag}

TagLists == UNION {[1..m -> TagSet] : m \in 1..MaxTags}

RECURSIVE Concat(_)
Concat(ts) == IF ts = <<>> THEN <<>> ELSE Head(ts) \o Concat(Tail(ts))

\* the last mandatory field, QUAL, of one or two characters (',' is a
\* quality), then the tags, then the line terminator if there is one
RawLines ==
    {q \o Concat(ts) \o e : q \in {<<"I">>, <<",", "I">>, <<"Z">>}, ts \in TagLists,
                            e \in {<<NL>>, <<>>}}

InferNumZtzs ==
    \E ub \in {"crash", "value"} :
        Apply("infer_num_ztzs", infer_num_ztzs_chars(pf.arg, ub))

InitLine ==
    /\ NoStream("line")
    /\ \E l \in RawLines : pf = [f |-> "infer_num_ztzs", arg |-> l, res |-> <<>>]

NextLine == InferNumZtzs

SpecLine == InitLine /\ [][NextLine]_pvars

(***************************************************************************)
(* set_correctness.  A read name is the sequence of its characters, one    *)
(* string per character; NUL ends it.  sim_startswith and sim_sep come     *)
(* from simplesim.h: the prefix and the delimiter of the tool's own naming *)
(* scheme.                                                                 *)
(***************************************************************************)
sim_startswith == <<"q", "s">>

sim_sep == "!"

RECURSIVE SkipColons(_, _, _)
\* while(ncolon > 0) { if(*qname_cur++ == ':') ncolon--; }; -1 when the scan
\* leaves the name
SkipColons(s, i, ncolon) ==
    IF ncolon = 0 THEN i
    ELSE IF i >= Len(s) THEN -1
    ELSE SkipColons(s, i + 1, IF s[i + 1] = ":" THEN ncolon - 1 ELSE ncolon)

RECURSIVE CountFrom(_, _, _, _)
\* the loop over the name that counts '_' and, from the third '_' on, ':'
CountFrom(s, i, nund, ncolon) ==
    IF i >= Len(s) THEN [nund |-> nund, ncolon |-> ncolon]
    ELSE IF s[i + 1] = "_" THEN CountFrom(s, i + 1, nund + 1, ncolon)
    ELSE IF s[i + 1] = ":" /\ nund >= 3 THEN CountFrom(s, i + 1, nund, ncolon + 1)
    ELSE CountFrom(s, i + 1, nund, ncolon)

is_fw(al) == ~Bit(al.flag, 16)

Abs(n) == IF n < 0 THEN 0 - n ELSE n

Label(st, correct) == [st |-> st, correct |-> correct]

\* the branch for a name that starts with sim_startswith; nd is the build
set_correctness_qtip(al, wiggle, nd) ==
    LET q    == al.qname
        m2   == mate_flag(al) = 2
        i0   == Len(sim_startswith)
        i1   == i0 + 1
        i2   == i1 + Len(al.rname)
        i3   == i2 + 1
        i4   == i3 + 1
        i5   == i4 + 1
        off1 == ParseNum(q, i5, 0)
        i6   == off1.i + 1
        i7   == IF CharAt(q, i6) = "-" THEN i6 + 1 ELSE i6
        sc1  == ParseNum(q, i7, 0)
        i8   == sc1.i + 1
        j2   == i8 + Len(al.rname)
        j3   == j2 + 1
        j4   == j3 + 1
        j5   == j4 + 1
        off2 == ParseNum(q, j5, 0)
        j6   == off2.i + 1
        j7   == IF CharAt(q, j6) = "-" THEN j6 + 1 ELSE j6
        sc2  == ParseNum(q, j7, 0)
        j8   == sc2.i + 1
        strand == IF is_fw(al) THEN "+" ELSE "-"
    IN  IF ~nd /\ CharAt(q, i0) # sim_sep THEN Label("assert", 0)
        ELSE IF ~m2 /\ ~strncmp_eq(q, i1, al.rname) THEN Label("ret", 0)
        ELSE IF CharAt(q, i2) # sim_sep THEN Label("ret", 0)
        ELSE IF ~m2 /\ CharAt(q, i3) # strand THEN Label("ret", 0)
        ELSE IF CharAt(q, i4) # sim_sep THEN Label("ret", 0)
        ELSE IF ~m2 /\ Abs(off1.v - (al.pos - 1)) >= wiggle THEN Label("ret", 0)
        ELSE IF CharAt(q, off1.i) # sim_sep THEN Label("ret", 0)
        ELSE IF CharAt(q, sc1.i) # sim_sep THEN Label("ret", 0)
        ELSE IF CharAt(q, i8) = "u" /\ CharAt(q, i8 + 1) \in {NUL, " "}
             THEN Label("ret", 1)
        ELSE IF ~nd /\ mate_flag(al) = 0 THEN Label("assert", 0)
        ELSE IF ~m2 THEN Label("ret", 1)
        ELSE IF ~strncmp_eq(q, i8, al.rname) THEN Label("ret", 0)
        ELSE IF CharAt(q, j2) # sim_sep THEN Label("ret", 0)
        ELSE IF CharAt(q, j3) # strand THEN Label("ret", 0)
        ELSE IF CharAt(q, j4) # sim_sep THEN Label("ret", 0)
        ELSE IF Abs(off2.v - (al.pos - 1)) >= wiggle THEN Label("ret", 0)
        ELSE IF CharAt(q, off2.i) # sim_sep THEN Label("ret", 0)
        ELSE IF CharAt(q, sc2.i) # sim_sep THEN Label("ret", 0)
        ELSE IF ~nd /\ CharAt(q, j8) \notin {"b", "c", "d"} THEN Label("assert", 0)
        ELSE Label("ret", 1)

\* the branch for a name with at least 8 '_' and 4 ':' ; ncolon is the count
\* a variant: the length of mate 1 for either mate
set_correctness_wgsim_len1(al, wiggle, nd, ncolon) ==
    LET q     == al.qname
        i1    == Len(al.rname)
        fs    == ParseNum(q, i1 + 1, 0)
        fe    == ParseNum(q, fs.i + 1, 0)
        i2    == SkipColons(q, fe.i + 1, ncolon)
        skip  == ParseNum(q, i2, 0)
        len1  == ParseNum(q, skip.i + 1, 0)
        len2  == ParseNum(q, len1.i + 1, 0)
        i3    == len2.i + 1
        flip  == CharAt(q, i3) = "1"
        mate1 == mate_flag(al) # 2
        len   == len1.v
    IN  IF ~strncmp_eq(q, 0, al.rname) THEN Label("ret", 0)
        ELSE IF CharAt(q, i1) # "_" THEN Label("ret", 0)
        ELSE IF CharAt(q, fs.i) # "_" THEN Label("ret", 0)
        ELSE IF CharAt(q, fe.i) # "_" THEN Label("ret", 0)
        ELSE IF i2 = -1 THEN Label("past", 0)
        ELSE IF CharAt(q, len1.i) # "_" THEN Label("ret", 0)
        ELSE IF CharAt(q, len2.i) # "_" THEN Label("ret", 0)
        ELSE IF ~nd /\ CharAt(q, i3) \notin {"0", "1"} THEN Label("assert", 0)
        ELSE IF (~flip) = mate1
             THEN Label("ret", IF Abs(al.pos - fs.v) < wiggle THEN 1 ELSE 0)
             ELSE Label("ret", IF Abs(al.pos - (fe.v - len + 1)) < wiggle THEN 1 ELSE 0)

set_correctness_wgsim(al, wiggle, nd, ncolon) ==
    LET q     == al.qname
        i1    == Len(al.rname)
        fs    == ParseNum(q, i1 + 1, 0)
        fe    == ParseNum(q, fs.i + 1, 0)
        i2    == SkipColons(q, fe.i + 1, ncolon)
        skip  == ParseNum(q, i2, 0)
        len1  == ParseNum(q, skip.i + 1, 0)
        len2  == ParseNum(q, len1.i + 1, 0)
        i3    == len2.i + 1
        flip  == CharAt(q, i3) = "1"
        mate1 == mate_flag(al) # 2
        len   == IF mate1 THEN len1.v ELSE len2.v
    IN  IF ~strncmp_eq(q, 0, al.rname) THEN Label("ret", 0)
        ELSE IF CharAt(q, i1) # "_" THEN Label("ret", 0)
        ELSE IF CharAt(q, fs.i) # "_" THEN Label("ret", 0)
        ELSE IF CharAt(q, fe.i) # "_" THEN Label("ret", 0)
        ELSE IF i2 = -1 THEN Label("past", 0)
        ELSE IF CharAt(q, len1.i) # "_" THEN Label("ret", 0)
        ELSE IF CharAt(q, len2.i) # "_" THEN Label("ret", 0)
        ELSE IF ~nd /\ CharAt(q, i3) \notin {"0", "1"} THEN Label("assert", 0)
        ELSE IF (~flip) = mate1
             THEN Label("ret", IF Abs(al.pos - fs.v) < wiggle THEN 1 ELSE 0)
             ELSE Label("ret", IF Abs(al.pos - (fe.v - len + 1)) < wiggle THEN 1 ELSE 0)

\* a variant: every ':' of the name is counted
set_correctness_all_colons(al, wiggle, nd) ==
    IF strncmp_eq(al.qname, 0, sim_startswith)
    THEN set_correctness_qtip(al, wiggle, nd)
    ELSE LET n == CountFrom(al.qname, 0, 3, 0)
         IN  IF n.nund - 3 >= 8 /\ n.ncolon = 4
             THEN set_correctness_wgsim(al, wiggle, nd, n.ncolon)
             ELSE Label("ret", -1)

set_correctness(al, wiggle, nd) ==
    IF strncmp_eq(al.qname, 0, sim_startswith)
    THEN set_correctness_qtip(al, wiggle, nd)
    ELSE LET n == CountFrom(al.qname, 0, 0, 0)
         IN  IF n.nund >= 8 /\ n.ncolon = 4
             THEN set_correctness_wgsim(al, wiggle, nd, n.ncolon)
             ELSE Label("ret", -1)

(***************************************************************************)
(* The names and records set_correctness is applied to.                    *)
(***************************************************************************)
\* largest tolerance given with the wiggle option
MaxWiggle == 2
\* the true offset written in the names (two digits when rendered)
TrueOff == 10

RefNames == {<<"a">>, <<"b", "c">>}

Strands == {"+", "-"}

\* reference name, strand, offset and score of one mate
Block(ref, strand, off) == ref \o <<sim_sep, strand, sim_sep>> \o ToDigits(off)
                               \o <<sim_sep, "-", "7", sim_sep>>

\* names of the tool's own scheme: unpaired reads, and pairs
QtipNames ==
    { [scheme |-> "qtip", kind |-> "u", ref1 |-> r, fw1 |-> s, off1 |-> TrueOff,
       ref2 |-> r, fw2 |-> s, off2 |-> TrueOff,
       qname |-> sim_startswith \o <<sim_sep>> \o Block(r, s, TrueOff) \o <<"u">>] :
        r \in RefNames, s \in Strands }
    \cup
    { [scheme |-> "qtip", kind |-> "c", ref1 |-> r1, fw1 |-> s1, off1 |-> o1,
       ref2 |-> r2, fw2 |-> s2, off2 |-> TrueOff,
       qname |-> sim_startswith \o <<sim_sep>> \o Block(r1, s1, o1)
                     \o Block(r2, s2, TrueOff) \o <<"c">>] :
        r1 \in RefNames, s1 \in Strands, o1 \in {TrueOff, TrueOff + MaxWiggle},
        r2 \in RefNames, s2 \in Strands }

\* names of the secondary scheme: fragment [TrueOff, TrueOff + 9], mates of
\* 4 and 6 bases
WgsimName(r, f) == r \o <<"_">> \o ToDigits(TrueOff) \o <<"_">> \o ToDigits(TrueOff + 9)
                     \o <<"_", "0", ":", "0", ":", "0", "_", "0", ":", "0", ":", "0", "_",
                          "4", "_", "6", "_", f, "_", "1">>

WgsimNames ==
    { [scheme |-> "wgsim", kind |-> f, ref1 |-> r, fw1 |-> "+", off1 |-> TrueOff,
       ref2 |-> r, fw2 |-> "+", off2 |-> TrueOff, qname |-> WgsimName(r, f)] :
        r \in RefNames, f \in {"0", "1"} }

\* names of neither scheme: no prefix and no separators; the prefix not at
\* the start; 7 underscores; 3 or 5 colons after the third underscore; 4
\* colons of which one stands before the third underscore
OtherQnames ==
    { <<"r", "7">>,
      <<"r">> \o sim_startswith \o <<sim_sep>> \o Block(<<"a">>, "+", TrueOff) \o <<"u">>,
      <<"a", "_", "1", "_", "2", "_", "0", ":", "0", ":", "0", "_", "0", ":", "0",
        "_", "4", "_", "6", "_", "0">>,
      <<"a", "_", "1", "_", "2", "_", "0", ":", "0", ":", "0", "_", "0", ":", "0",
        "_", "4", "_", "6", "_", "0", "_", "1">>,
      <<"a", "_", "1", "_", "2", "_", "0", ":", "0", ":", "0", "_", "0", ":", "0", ":", "0",
        ":", "0", "_", "4", "_", "6", "_", "0", "_", "1">>,
      <<"a", ":", "x", "_", "1", "_", "2", "_", "0", ":", "0", ":", "0", "_", "0", ":", "0",
        "_", "4", "_", "6", "_", "0", "_", "1">> }

OtherNames ==
    { [scheme |-> "", kind |-> "", ref1 |-> <<"a">>, fw1 |-> "+", off1 |-> TrueOff,
       ref2 |-> <<"a">>, fw2 |-> "+", off2 |-> TrueOff, qname |-> q] : q \in OtherQnames }

Names == QtipNames \cup WgsimNames \cup OtherNames

\* flags of aligned records: unpaired, mate 1 and mate 2, on either strand
NameFlags == {0, 16, 65, 81, 129, 145}

\* reported positions on both sides of the true one, up to MaxWiggle + 1 away
Positions == (TrueOff - MaxWiggle - 1)..(TrueOff + 9 + MaxWiggle + 1)

NameArgs ==
    { [name |-> n, qname |-> n.qname, rname |-> r, flag |-> f, pos |-> p, wiggle |-> w] :
        n \in Names, r \in RefNames, f \in NameFlags, p \in Positions, w \in 1..MaxWiggle }

SetCorrectness ==
    Apply("set_correctness", set_correctness(pf.arg, pf.arg.wiggle, ndebug))

InitName ==
    /\ NoStream("name")
    /\ \E a \in NameArgs : pf = [f |-> "set_correctness", arg |-> a, res |-> <<>>]

NextName == SetCorrectness

SpecName == InitName /\ [][NextName]_pvars

(***************************************************************************)
(* mdz_to_list on every string within the bounds of digits, letters, '^'   *)
(* and the line terminator, which fgets keeps and which ends the value of  *)
(* an MD:Z tag that is the last field of its line.                         *)
(***************************************************************************)
\* largest length of an MD:Z string
MaxMdz == 4

MdzChars == {"0", "1", "A", "C", "^", NL}

MdzStrings == UNION { [1..n -> MdzChars] : n \in 1..MaxMdz }

MdzToList == Apply("mdz_to_list", mdz_to_list(pf.arg))

InitMdz ==
    /\ NoStream("mdz")
    /\ \E s \in MdzStrings : pf = [f |-> "mdz_to_list", arg |-> s, res |-> <<>>]

NextMdz == MdzToList

SpecMdz == InitMdz /\ [][NextMdz]_pvars

(***************************************************************************)
(* The template reservoir of a lane.  ReservoirSampledEList is declared in *)
(* ds.h; add_part1 is modelled as the sampler the specification describes: *)
(* while fewer than k units were offered it appends a slot and returns its  *)
(* offset, afterwards it draws j uniformly among n + 1 values for the unit  *)
(* number n + 1, which is kept when j < k.  What the caller does with the   *)
(* offset (print_unpaired, print_paired_helper) is the code's.              *)
(***************************************************************************)
\* largest capacity of a reservoir (input_model_size)
MaxK == 2
\* largest number of units offered to a reservoir
MaxUnits == 4

add_part1(r, k, j) ==
    IF r.n < k
    THEN [list |-> Append(r.list, 0), n |-> r.n + 1, off |-> Len(r.list)]
    ELSE [list |-> r.list, n |-> r.n + 1, off |-> j]

\* the values add_part1 can draw when r.n units were offered
Draws(r, k) == IF r.n < k THEN {0} ELSE 0..r.n

\* a variant: the kept unit is stored in the slot the sampler selected
AddTemplate_at_off(r, k, item, j) ==
    LET a == add_part1(r, k, j)
    IN  IF a.off < k
        THEN [list |-> [a.list EXCEPT ![a.off + 1] = item], n |-> a.n]
        ELSE [list |-> a.list, n |-> a.n]

\* if(off < unp_model->k()) unp_model->list().back().init(...)
AddTemplate(r, k, item, j) ==
    LET a == add_part1(r, k, j)
    IN  IF a.off < k
        THEN [list |-> [a.list EXCEPT ![Len(a.list)] = item], n |-> a.n]
        ELSE [list |-> a.list, n |-> a.n]

\* a unit, numbered by its place in the stream, is offered to the reservoir
OfferUnit ==
    /\ status = "pf"
    /\ pf.f = "add_part1"
    /\ pf.res.n < pf.arg.L
    /\ \E j \in Draws(pf.res, pf.arg.k) :
          LET r == AddTemplate(pf.res, pf.arg.k, pf.res.n + 1, j)
          IN  pf' = [pf EXCEPT !.res = [list |-> r.list, n |-> r.n,
                                        draws |-> Append(pf.res.draws, j)]]
    /\ UNCHANGED <<status, ndebug, do_features, keep_templates, sam, total, nline,
                   line1, al_cur1, al1, al2, cnt, head, nztz, linebuf, write_buf,
                   rec_fh, meta_fh, templates, last, nshort, hist, input, xs>>

InitReservoir ==
    /\ NoStream("reservoir")
    /\ \E k \in 1..MaxK : \E L \in 1..MaxUnits :
          pf = [f |-> "add_part1", arg |-> [k |-> k, L |-> L],
                res |-> [list |-> <<>>, n |-> 0, draws |-> <<>>]]

NextReservoir == OfferUnit

SpecReservoir == InitReservoir /\ [][NextReservoir]_pvars

(***************************************************************************)
(* Properties of lane routing (sam_pass1).                                 *)
(***************************************************************************)
\* the step just taken resolved a unit: a record was read, no assertion
\* failed, no ordering error was raised, and the record is not left pending
Resolved(ev) == ev.step = "aln" /\ ev.route \notin {"pending", "throw", "assert"}

\* the alignments of the unit of the step: the record, or the two mates
UnitAls(ev) == IF ev.paired THEN {ev.m1, ev.m2} ELSE {ev.cur}

\* the outcomes the flags of a unit allow
FlagOutcomes(ev) ==
    LET al == {a \in UnitAls(ev) : is_aligned(a)}
    IN  IF mate_flag(ev.cur) = 0
        THEN IF al # {} THEN {"u"} ELSE {"unp_unal"}
        ELSE IF al = {} THEN {"pair_unal"}
        ELSE IF al # UnitAls(ev) THEN {"b"}
        ELSE IF \A a \in al : is_concordant(a) THEN {"c"}
        ELSE IF \A a \in al : ~is_concordant(a) THEN {"d"}
        ELSE {"c", "d"}

Tagged(ev) == \E a \in UnitAls(ev) : a.typ # ""

OutcomeCounter(route) ==
    CASE route = "unp_unal" -> "nunp_unal"
      [] route = "pair_unal" -> "npair_unal"
      [] route = "mismatch" -> "ntyp_mismatch"
      [] OTHER -> LaneCounter(route)

OutcomeCounters == {"nunp_al", "nunp_unal", "npair_badend", "npair_conc",
                    "npair_disc", "npair_unal", "ntyp_mismatch"}

\* C1: every resolved unit gets exactly one outcome, fixed by its flags: a
\* record without mate role goes to the unpaired-aligned lane when aligned and
\* is discarded otherwise; a pair with no mate aligned is discarded, with one
\* mate aligned goes to the bad-end lane, with both aligned to the concordant
\* lane when the concordant bit is set and to the discordant lane when it is
\* not.  Only a unit with a simulated-type tag can be a mismatch instead, and
\* no unit counts for, or writes to, a lane other than the one of its outcome.
C1_RoutingByFlags ==
    [][ Resolved(last') =>
          /\ last'.route \in FlagOutcomes(last')
                             \cup (IF Tagged(last') THEN {"mismatch"} ELSE {})
          /\ \A c \in OutcomeCounters :
                cnt'[c] = cnt[c] + (IF c = OutcomeCounter(last'.route) THEN 1 ELSE 0)
          /\ \A L \in Lanes \ {last'.route} :
                rec_fh'[L] = rec_fh[L] /\ templates'[L] = templates[L]
          /\ (last'.fl # <<>> => last'.lane = last'.route)
      ]_pvars

\* a pair with one mate aligned was written to the bad-end lane
C1_Witness ==
    /\ last.step = "aln" /\ last.paired /\ last.route = "b"
    /\ last.rc = "ok" /\ last.fl # <<>>
    /\ rec_fh["b"] = 1

(***************************************************************************)
(* Properties of mating and of the emitters.                               *)
(***************************************************************************)
Fatal == {"throw", "assert", "crash"}

\* C4: a record with a mate role that arrives while the pending record has the
\* same mate role ends the run with an error, and nothing is emitted for the
\* two: no values are handed to a feature file and no template is offered.
C4_SameRoleIsFatal ==
    (/\ last.step = "aln"
     /\ last.prev.valid
     /\ mate_flag(last.cur) # 0
     /\ mate_flag(last.cur) = mate_flag(last.prev))
    => /\ status \in Fatal
       /\ last.fl = <<>>
       /\ last.tm = 0

\* the records of the unit that the lane of the step emits
EmittedAls(ev) == {a \in UnitAls(ev) : is_aligned(a)}

\* C5: when a record that is to be emitted, unpaired or either mate of a pair,
\* has no edit transcript (no extended CIGAR and no MD:Z), the run aborts and
\* nothing is emitted for the unit: no values are handed to the feature file
\* and no template is offered.
C5_NoTranscriptIsFatal ==
    (/\ last.step = "aln"
     /\ last.lane \in Lanes
     /\ \E a \in EmittedAls(last) : ~has_edit_xscript(a))
    => /\ status \in Fatal
       /\ last.fl = <<>>
       /\ last.tm = 0

\* C6: a short write of a feature record aborts the run: after it no further
\* SAM file is parsed and the process does not end normally, and no record is
\* processed while the row buffer holds the values of an earlier one.
C6_ShortWriteAborts ==
    /\ nshort > 0 => status \notin {"run", "done"}
    /\ last.step = "aln" => last.base = 0

\* a pair was emitted by the step: the values pushed for it, its mates by
\* order of appearance, and the length of one of its two records
PairEmitted(ev) == ev.step = "aln" /\ ev.lane \in {"c", "d"} /\ ev.fl # <<>>

Pushed(ev) == SubSeq(ev.fl, ev.base + 1, Len(ev.fl))

Earlier(ev) == IF ev.m1.line < ev.m2.line THEN ev.m1 ELSE ev.m2

Later(ev) == IF ev.m1.line < ev.m2.line THEN ev.m2 ELSE ev.m1

RecLen(ev) == 12 + ev.m1.rest.nz + ev.m2.rest.nz

\* the record that starts at offset o of row is the one of alignment a:
\* its line id, its read length, its mapping quality and its correctness
OwnRecordOf(row, o, n, a) ==
    /\ row[o + 1] = V("id", a.line)
    /\ row[o + 2] = V("len", a.line)
    /\ row[o + n - 1] = V("mapq", a.line)
    /\ row[o + n] = V("correct", a.line)

\* C7 as stated: of the two records of a pair, the first is the one of the
\* record with mate role 1 and the second the one of the record with mate
\* role 2, whichever appeared first in the stream.
C7_Mate1RecordFirst ==
    (PairEmitted(last) /\ mate_flag(last.m1) = 1 /\ mate_flag(last.m2) = 2)
    => /\ Len(Pushed(last)) = 2 * RecLen(last)
       /\ OwnRecordOf(Pushed(last), 0, RecLen(last), last.m1)
       /\ OwnRecordOf(Pushed(last), RecLen(last), RecLen(last), last.m2)

\* C7, amended: of the two records of a pair, the first is the one of the mate
\* that appeared first in the stream and the second the one of the mate that
\* appeared after it, whatever their mate roles.
C7_EarlierRecordFirst ==
    PairEmitted(last)
    => /\ Len(Pushed(last)) = 2 * RecLen(last)
       /\ OwnRecordOf(Pushed(last), 0, RecLen(last), Earlier(last))
       /\ OwnRecordOf(Pushed(last), RecLen(last), RecLen(last), Later(last))

\* a pair whose mate 2 came first in the stream was written
C7_Witness ==
    /\ PairEmitted(last) /\ last.rc = "ok"
    /\ mate_flag(last.m1) = 1 /\ mate_flag(last.m2) = 2
    /\ last.m2.line < last.m1.line

\* the parts of a paired record r whose own mate has ko ZT:Z values and whose
\* opposite mate has kt: own fields and ZT:Z values, the opposite mate's
OwnPart(r, ko) == SubSeq(r, 2, 5 + ko)

OppositePart(r, ko, kt) == SubSeq(r, 6 + ko, 9 + ko) \o SubSeq(r, 11 + ko, 10 + ko + kt)

\* C8: the two records of a pair mirror each other: the own fields and ZT:Z
\* values of each are the opposite-mate fields and ZT:Z values of the other,
\* both carry the same fragment length, and the line id, mapping quality and
\* correctness of each are those of its own mate.
C8_PairRecordsMirror ==
    PairEmitted(last)
    => LET a  == Earlier(last)
           b  == Later(last)
           n  == RecLen(last)
           r1 == SubSeq(Pushed(last), 1, n)
           r2 == SubSeq(Pushed(last), n + 1, 2 * n)
       IN  /\ Len(Pushed(last)) = 2 * n
           /\ OwnPart(r1, a.rest.nz) = OppositePart(r2, b.rest.nz, a.rest.nz)
           /\ OwnPart(r2, b.rest.nz) = OppositePart(r1, a.rest.nz, b.rest.nz)
           /\ r1[10 + a.rest.nz] = r2[10 + b.rest.nz]
           /\ OwnRecordOf(r1, 0, n, a) /\ OwnRecordOf(r2, 0, n, b)
           /\ \A i \in 1..Len(OwnPart(r1, a.rest.nz)) : OwnPart(r1, a.rest.nz)[i][2] = a.line
           /\ \A i \in 1..Len(OwnPart(r2, b.rest.nz)) : OwnPart(r2, b.rest.nz)[i][2] = b.line

\* a pair whose mates differ in their number of ZT:Z values was written
C8_Witness ==
    /\ PairEmitted(last) /\ last.rc = "ok"
    /\ last.m1.rest.nz # last.m2.rest.nz

C10_OneHeaderWithTotal ==
    (status = "done" /\ do_features /\ nshort = 0)
    => \A L \in Lanes :
          IF rec_fh[L] > 0
          THEN Len(meta_fh[L]) = 1 /\ meta_fh[L][1].nrow = rec_fh[L]
          ELSE meta_fh[L] = <<>>

(***************************************************************************)
(* Properties of the edit transcripts.                                     *)
(***************************************************************************)
BothBuilt == xs.direct.st = "ok" /\ xs.recon.st = "ok"

\* C2: for an alignment given as an extended CIGAR and as the equivalent
\* plain CIGAR with its MD:Z string, the transcript of the direct path and the
\* transcript of the reconciliation are the same, hard clips included.
C2_PathsAgree ==
    (BothBuilt /\ xs.c = Len(xs.a) /\ xs.k = Len(xs.a)) => xs.direct.xs = xs.recon.xs

CountOf(x, ops) == Cardinality({i \in 1..Len(x) : x[i] \in ops})

RECURSIVE SumRuns(_, _)
SumRuns(cigar, ops) ==
    IF cigar = <<>> THEN 0
    ELSE (IF cigar[1][2] \in ops THEN cigar[1][1] ELSE 0) + SumRuns(Tail(cigar), ops)

\* the counts of a transcript x agree with the CIGAR it was built from
LengthsAgree(x, cigar) ==
    /\ CountOf(x, {"=", "X", "I", "S"}) = SumRuns(cigar, {"M", "=", "X", "I", "S"})
    /\ CountOf(x, {"=", "X", "D", "N"}) = SumRuns(cigar, {"M", "=", "X", "D", "N"})

\* C3: a transcript built without an error, by either path, has as many =, X,
\* I and S as the runs of the read-consuming operations of its CIGAR sum to,
\* and as many =, X, D and N as the runs of the reference-consuming ones.
C3_TranscriptLengths ==
    /\ xs.direct.st = "ok" => LengthsAgree(xs.direct.xs, xs.a)
    /\ xs.recon.st = "ok" => LengthsAgree(xs.recon.xs, ReconCigar)

(***************************************************************************)
(* Properties of the ZT:Z values of feature records.                       *)
(***************************************************************************)
\* C11: the number n of ZT:Z values that a lane infers from its first record
\* holds for every record of the lane: the values pushed for an unpaired or
\* bad-end record are 8 + n, those pushed for each of the two records of a
\* pair are 12 + 2n, as many as the lane's header names columns.
C11_FixedZtzCount ==
    (last.step = "aln" /\ last.lane \in Lanes /\ last.fl # <<>>)
    => Len(Pushed(last)) = IF last.lane \in {"u", "b"}
                           THEN 8 + nztz[last.lane]
                           ELSE 2 * (12 + 2 * nztz[last.lane])

\* C18: when a record that is to be emitted, unpaired or either mate of a
\* pair, has no ZT:Z tag, the run aborts with an error, and nothing is emitted
\* for the unit: no values are handed to a feature file, no template offered.
C18_NoZtzIsFatal ==
    (/\ last.step = "aln"
     /\ last.lane \in Lanes
     /\ \E a \in EmittedAls(last) : a.rest.nz = 0)
    => /\ status \in Fatal
       /\ last.fl = <<>>
       /\ last.tm = 0

QualDone == pf.f = "calc_qual_averages" /\ pf.res # <<>>

\* the positions of the bases that the CIGAR string does not clip
AlignedPositions(al) == { i \in 0..(al.len - 1) : al.left_clip <= i /\ i < al.len - al.right_clip }

\* C14: the aligned-quality total is the sum of quality - 33 over exactly the
\* positions i with left_clip <= i < len - right_clip, and, when the clipped
\* total is kept, it is the sum over exactly the other positions; with no soft
\* clipping the aligned total is the sum over all len bases.
C14_QualPartition ==
    QualDone =>
        /\ pf.res.tot_aligned_qual = QualTotal(pf.arg.qual, AlignedPositions(pf.arg))
        /\ pf.arg.left_clip + pf.arg.right_clip > 1
              => pf.res.tot_clipped_qual =
                    QualTotal(pf.arg.qual, (0..(pf.arg.len - 1)) \ AlignedPositions(pf.arg))

\* C15: with 0 or 1 clipped bases in total the clipped average is the
\* sentinel 100.0, both clip lengths are 0 and the clipped total is 0; with 2
\* or more the clip lengths are the ones the CIGAR string gave.
C15_ClipSentinel ==
    QualDone =>
        IF pf.arg.left_clip + pf.arg.right_clip <= 1
        THEN /\ pf.res.avg_clipped_qual = <<100, 1>>
             /\ pf.res.left_clip = 0 /\ pf.res.right_clip = 0
             /\ pf.res.tot_clipped_qual = 0
        ELSE /\ pf.res.left_clip = pf.arg.left_clip
             /\ pf.res.right_clip = pf.arg.right_clip

\* a record with exactly one clipped base, of quality above 33, was averaged
C15_Witness ==
    /\ QualDone
    /\ pf.arg.left_clip + pf.arg.right_clip = 1
    /\ pf.arg.right_clip = 1
    /\ pf.arg.qual[pf.arg.len] > 33

(***************************************************************************)
(* Properties of set_correctness.                                          *)
(***************************************************************************)
NameDone == pf.f = "set_correctness" /\ pf.res # <<>>

\* the mate the record is, as far as the name is concerned
NameMate(a) == IF mate_flag(a) = 2 THEN 2 ELSE 1

\* the record has the role the name was made for: an unpaired record for the
\* name of an unpaired read, a mate for the name of a pair
RoleFits(a) ==
    \/ a.name.scheme = "wgsim"
    \/ a.name.scheme = "qtip" /\ ((a.name.kind = "u") <=> (mate_flag(a) = 0))

\* reference name and, in the tool's own scheme, strand of the record are
\* those the name gives for its mate
NameMatches(a) ==
    /\ a.name.scheme \in {"qtip", "wgsim"}
    /\ a.rname = IF NameMate(a) = 2 THEN a.name.ref2 ELSE a.name.ref1
    /\ a.name.scheme = "qtip"
          => (IF is_fw(a) THEN "+" ELSE "-")
                = IF NameMate(a) = 2 THEN a.name.fw2 ELSE a.name.fw1

\* the 1-based position the name gives for the record's mate
TruePos(a) ==
    IF a.name.scheme = "qtip"
    THEN (IF NameMate(a) = 2 THEN a.name.off2 ELSE a.name.off1) + 1
    ELSE IF (a.name.kind = "0") = (NameMate(a) = 1)
         THEN TrueOff
         ELSE (TrueOff + 9) - (IF NameMate(a) = 1 THEN 4 ELSE 6) + 1

\* C12: for a name of either scheme whose reference name and strand match
\* the record, the label is 1 exactly when the reported position is less than
\* wiggle away from the true one; at a distance of wiggle or more it is not 1.
C12_WiggleBoundary ==
    (NameDone /\ pf.res.st = "ret" /\ RoleFits(pf.arg) /\ NameMatches(pf.arg))
    => ((pf.res.correct = 1) <=> (Abs(pf.arg.pos - TruePos(pf.arg)) < pf.arg.wiggle))

\* the positions of the underscores of a name
Underscores(q) == { i \in 1..Len(q) : q[i] = "_" }

\* the colons of a name that stand after its third underscore
LateColons(q) ==
    { i \in 1..Len(q) : q[i] = ":" /\ Cardinality({ j \in Underscores(q) : j < i }) >= 3 }

StartsWithPrefix(q) ==
    /\ Len(q) >= Len(sim_startswith)
    /\ SubSeq(q, 1, Len(sim_startswith)) = sim_startswith

Recognised(q) ==
    \/ StartsWithPrefix(q)
    \/ Cardinality(Underscores(q)) >= 8 /\ Cardinality(LateColons(q)) = 4

\* C13: the label stays unknown (-1) exactly when the name starts with the
\* simulation prefix or has at least 8 underscores with exactly 4 colons after
\* the third; a recognised name is labelled 0 or 1.
C13_UnknownIffNeitherScheme ==
    NameDone =>
        /\ (pf.res.correct = -1) <=> ~Recognised(pf.arg.qname)
        /\ Recognised(pf.arg.qname) => pf.res.correct \in {0, 1}

\* a name with 4 colons, one of them before the third underscore, was left
\* unknown
C13_Witness ==
    /\ NameDone
    /\ pf.res.correct = -1
    /\ Cardinality({ i \in 1..Len(pf.arg.qname) : pf.arg.qname[i] = ":" }) = 4
    /\ Cardinality(Underscores(pf.arg.qname)) >= 8

(***************************************************************************)
(* Properties of mdz_to_list.                                              *)
(***************************************************************************)
MdzDone == pf.f = "mdz_to_list" /\ pf.res # <<>>

RECURSIVE Pow10(_)
Pow10(n) == IF n = 0 THEN 1 ELSE 10 * Pow10(n - 1)

\* the end of the digits that start at position i of s (1-based, exclusive)
DigitsEnd(s, i) ==
    CHOOSE e \in (i + 1)..(Len(s) + 1) :
        /\ \A j \in i..(e - 1) : isdigit(s[j])
        /\ e <= Len(s) => ~isdigit(s[e])

\* the number written at positions i..e-1 of s
NumberAt(s, i, e) ==
    LET RECURSIVE Sum(_)
        Sum(j) == IF j >= e THEN 0 ELSE DigitVal(s[j]) * Pow10(e - 1 - j) + Sum(j + 1)
    IN  Sum(i)

RECURSIVE Fields(_, _)
\* the fields of s from position i on: its numbers, its letters and its '^',
\* in order; a number is <<"9", n>>, a character c is <<c, 0>>
Fields(s, i) ==
    IF i > Len(s) THEN <<>>
    ELSE IF isdigit(s[i])
    THEN <<<<"9", NumberAt(s, i, DigitsEnd(s, i))>>>> \o Fields(s, DigitsEnd(s, i))
    ELSE <<<<s[i], 0>>>> \o Fields(s, i + 1)

\* what the run j of the list contributes: its number, its letters, or '^'
\* and its letters, the letters taken from the side buffer at its offset
RunFields(r, j) ==
    LET o == r.oro[j]
        letters == [n \in 1..o.run |-> <<r.mdz_char[o.offset + n], 0>>]
    IN  CASE o.op = 0 -> <<<<"9", o.run>>>>
          [] o.op = 1 -> letters
          [] OTHER    -> <<<<"^", 0>>>> \o letters

RECURSIVE Rebuilt(_, _)
Rebuilt(r, j) == IF j > Len(r.oro) THEN <<>> ELSE RunFields(r, j) \o Rebuilt(r, j + 1)

RECURSIVE NonZero(_)
\* the fields without the numbers that are 0
NonZero(f) ==
    IF f = <<>> THEN <<>>
    ELSE (IF f[1] = <<"9", 0>> THEN <<>> ELSE <<f[1]>>) \o NonZero(Tail(f))

RECURSIVE TotalOf(_, _)
\* the sum of the numbers of the fields f plus w for every letter
TotalOf(f, w) ==
    IF f = <<>> THEN 0
    ELSE (IF f[1][1] = "9" THEN f[1][2] ELSE IF f[1][1] = "^" THEN 0 ELSE w)
         + TotalOf(Tail(f), w)

RECURSIVE RunTotal(_, _)
RunTotal(oro, j) == IF j > Len(oro) THEN 0 ELSE oro[j].run + RunTotal(oro, j + 1)

\* the string has only digits, letters and '^'
InMdzAlphabet(s) == \A i \in 1..Len(s) : isdigit(s[i]) \/ isalpha(s[i]) \/ s[i] = "^"

\* C17: for a string of digits, letters and '^', the run list and the side
\* buffer give back the string: each match run
\* its number, each mismatch run its letters, each deletion run '^' and its
\* letters, in order, only the numbers that are 0 missing; and the run lengths
\* add up to the numbers plus the count of letters of the string.
C17_MdzReconstructed ==
    (MdzDone /\ InMdzAlphabet(pf.arg)) =>
        /\ pf.res.st = "ok"
        /\ \A j \in 1..Len(pf.res.oro) :
              /\ pf.res.oro[j].op = 0 => pf.res.oro[j].run > 0
              /\ pf.res.oro[j].op # 0 =>
                    /\ pf.res.oro[j].offset >= 0
                    /\ pf.res.oro[j].offset + pf.res.oro[j].run <= Len(pf.res.mdz_char)
        /\ Rebuilt(pf.res, 1) = NonZero(Fields(pf.arg, 1))
        /\ RunTotal(pf.res.oro, 1) = TotalOf(Fields(pf.arg, 1), 1)

\* a string with a mismatch, a match count of 0 and a deletion was parsed
C17_Witness ==
    /\ MdzDone
    /\ pf.arg = <<"A", "0", "^", "C">>
    /\ Len(pf.res.oro) = 2

(***************************************************************************)
(* Properties of template output.                                          *)
(***************************************************************************)
\* C19: in mode 'i' (no feature output, no simulation) every unit of a lane
\* gets a row in the template file of its lane; in the other modes no row is
\* written and no template is sampled.
C19_TemplateRows ==
    (last.step = "aln" /\ last.lane \in Lanes /\ last.rc = "ok")
    => IF ~do_features /\ ~keep_templates
       THEN ModelRows = 1
       ELSE ModelRows = 0 /\ last.tm = 0

(***************************************************************************)
(* Properties of the template reservoir.                                   *)
(***************************************************************************)
\* the sequences of draws of a stream of L units: one value for each unit,
\* each sequence as likely as any other
DrawSeqs(k, L) ==
    { d \in [1..L -> 0..(L - 1)] : \A i \in 1..L : d[i] \in (IF i <= k THEN {0} ELSE 0..(i - 1)) }

RECURSIVE Replay(_, _, _)
\* the reservoir after the first i units of a stream with draws d
Replay(k, d, i) ==
    IF i = 0 THEN [list |-> <<>>, n |-> 0]
    ELSE AddTemplate(Replay(k, d, i - 1), k, i, d[i])

\* the draws of a stream of L units that leave the unit in the sample
Including(k, L, unit) ==
    { d \in DrawSeqs(k, L) : \E s \in 1..Len(Replay(k, d, L).list) : Replay(k, d, L).list[s] = unit }

\* C20: after a stream of L units into a reservoir of capacity k < L, every
\* unit is in the sample with probability k / L: of the equally likely
\* sequences of draws, the share that keeps the unit is k / L.
C20_UniformInclusion ==
    (pf.f = "add_part1" /\ pf.res.n = pf.arg.L /\ pf.arg.k < pf.arg.L)
    => \A unit \in 1..pf.arg.L :
          pf.arg.L * Cardinality(Including(pf.arg.k, pf.arg.L, unit))
             = pf.arg.k * Cardinality(DrawSeqs(pf.arg.k, pf.arg.L))

(***************************************************************************)
(* Properties of the two record slots of sam_pass1.                        *)
(***************************************************************************)
\* C21: whenever a record is read into a slot, that slot holds no pending
\* record: the slot that al_cur1 selects is not marked valid when the line of
\* an eligible record is read.
C21_SelectedSlotIsFree ==
    [][ last'.step = "aln" => ~(IF al_cur1 THEN al1 ELSE al2).valid ]_pvars

\* C22: never are both slots marked pending, and after a pair is bound
\* neither is.
C22_AtMostOnePending ==
    /\ ~(al1.valid /\ al2.valid)
    /\ (last.step = "aln" /\ last.paired /\ status \notin {"throw", "assert"})
          => (~al1.valid /\ ~al2.valid)

\* a pending record was bound with its mate
C22_Witness ==
    /\ last.step = "aln" /\ last.paired
    /\ last.prev.valid
    /\ status = "run"

(***************************************************************************)
(* Properties of the symbols and of the MD:Z cursor of a transcript.       *)
(***************************************************************************)
XsAlphabet == {"=", "X", "I", "D", "N", "S"}

OnlyAlphabet(x) == \A i \in 1..Len(x) : x[i] \in XsAlphabet

\* C23: a transcript built by either path has only the symbols =, X, I, D, N
\* and S: a hard clip gives no symbol, and no M or P appears.
C23_TranscriptAlphabet ==
    /\ xs.direct.st = "ok" => OnlyAlphabet(xs.direct.xs)
    /\ xs.recon.st = "ok" => OnlyAlphabet(xs.recon.xs)

\* C24: the reconciliation yields a transcript only when the MD:Z runs are
\* used up exactly: the cursor is at the end of the run list, so no run is
\* left and none is left in part.
C24_MdzConsumedExactly ==
    (xs.recon.st = "ok" /\ ~cigar_equal_x(ReconCigar))
    => xs.recon.mdo = Len(xs.recon.oro)

RECURSIVE DeletionsMatch(_, _, _, _)
\* every D run of the CIGAR from operation i on finds, at the cursor, an MD:Z
\* run that exists, is a deletion and has its length
DeletionsMatch(cigar, i, mdo, oro) ==
    IF i > Len(cigar) THEN TRUE
    ELSE IF cigar[i][2] = "M"
    THEN LET m == MRun(cigar[i][1], mdo, oro, <<>>)
         IN  DeletionsMatch(cigar, i + 1, m.mdo, m.oro)
    ELSE IF cigar[i][2] = "D"
    THEN /\ mdo < Len(oro)
         /\ oro[mdo + 1].op = 2
         /\ oro[mdo + 1].run = cigar[i][1]
         /\ DeletionsMatch(cigar, i + 1, mdo + 1, oro)
    ELSE DeletionsMatch(cigar, i + 1, mdo, oro)

\* C25: the reconciliation yields a transcript only when every D run of the
\* CIGAR met a deletion run of its own length at the cursor, and then the
\* transcript has as many D as the D runs sum to; otherwise it fails and
\* yields none.
C25_DeletionRunsMatch ==
    (xs.recon.st = "ok" /\ ~cigar_equal_x(ReconCigar))
    => /\ DeletionsMatch(ReconCigar, 1, 0, mdz_to_list(MdzOf(xs.a, xs.k)).oro)
       /\ CountOf(xs.recon.xs, {"D"}) = SumRuns(ReconCigar, {"D"})

(***************************************************************************)
(* Units and their simulated-type tags.  A unit is what the last record    *)
(* completed: an unpaired record, or a pair.                               *)
(***************************************************************************)
LaneCounters == {"nunp_al", "npair_badend", "npair_conc", "npair_disc"}

UnitFormed(e) ==
    /\ e.step = "aln"
    /\ e.route \notin {"throw", "assert"}
    /\ mate_flag(e.cur) = 0 \/ e.paired

AlignedMate(e) == IF is_aligned(e.m1) THEN e.m1 ELSE e.m2

\* the lane that the flags of a unit say ("" when it has none)
FlagLane(e) ==
    IF ~e.paired THEN (IF is_aligned(e.cur) THEN "u" ELSE "")
    ELSE IF ~is_aligned(e.m1) /\ ~is_aligned(e.m2) THEN ""
    ELSE IF is_aligned(e.m1) # is_aligned(e.m2) THEN "b"
    ELSE IF is_concordant(e.m1) THEN "c" ELSE "d"

UnitTag(e) ==
    IF ~e.paired THEN e.cur.typ
    ELSE IF FlagLane(e) = "b" THEN AlignedMate(e).typ
    ELSE e.m1.typ

TagOfLane(e) ==
    IF FlagLane(e) = "b"
    THEN (IF mate_flag(AlignedMate(e)) = 1 THEN "b1" ELSE "b2")
    ELSE FlagLane(e)

TagDisagrees(e) ==
    /\ UnitFormed(e)
    /\ FlagLane(e) # ""
    /\ UnitTag(e) # ""
    /\ UnitTag(e) # TagOfLane(e)

\* C26: a unit whose simulated-type tag disagrees with the lane of its flags
\* gives no feature record and no template in any lane, adds exactly one to
\* ntyp_mismatch and nothing to a lane counter; a unit without a tag adds
\* nothing to ntyp_mismatch.
C26_TypeMismatchDropped ==
    [][ /\ TagDisagrees(last')
           => /\ cnt'["ntyp_mismatch"] = cnt["ntyp_mismatch"] + 1
              /\ \A c \in LaneCounters : cnt'[c] = cnt[c]
              /\ rec_fh' = rec_fh /\ write_buf' = write_buf
              /\ templates' = templates
              /\ last'.fl = <<>> /\ last'.tm = 0
        /\ (UnitFormed(last') /\ UnitTag(last') = "")
           => cnt'["ntyp_mismatch"] = cnt["ntyp_mismatch"] ]_pvars

C26_Witness ==
    /\ TagDisagrees(last) /\ last.paired
    /\ FlagLane(last) = "b"
    /\ cnt["ntyp_mismatch"] = 2

(***************************************************************************)
(* The record of a bad-end pair and of an unpaired record.                 *)
(***************************************************************************)
UnalignedMate(e) == IF is_aligned(e.m1) THEN e.m2 ELSE e.m1

\* the values written for the last unit, without what the buffer held before
NewValues(e) == SubSeq(e.fl, e.base + 1, Len(e.fl))

\* the unpaired layout of record al with opposite length olen
UnpairedLayout(al, olen) ==
    <<V("id", al.line), V("len", al.line), V("clip", al.line),
      V("alqual", al.line), V("clipqual", al.line), olen>>
    \o [i \in 1..al.rest.nz |-> <<"ztz", al.line, i - 1>>]
    \o <<V("mapq", al.line), V("correct", al.line)>>

\* the line buffer that holds the line of mate al of the last pair when line1
\* is sel: the one just filled for the current record, the other one for the
\* pending record
BufferOf(e, al, sel) ==
    IF al.line = e.cur.line THEN (IF sel THEN 2 ELSE 1) ELSE (IF sel THEN 1 ELSE 2)

BadEndEmitted(e) ==
    UnitFormed(e) /\ e.paired /\ FlagLane(e) = "b" /\ e.fl # <<>>

\* C27: a bad-end pair gives exactly one record, of the unpaired layout, of
\* the aligned mate, with the length of the sequence field of the unaligned
\* mate's line as opposite length, whichever mate came first; an unpaired
\* aligned record has the opposite length 0.
C27_BadEndRecord ==
    [][ /\ BadEndEmitted(last')
           => /\ NewValues(last')
                   = UnpairedLayout(AlignedMate(last'), V("len", UnalignedMate(last').line))
              /\ linebuf'[BufferOf(last', UnalignedMate(last'), line1')] = UnalignedMate(last').line
              /\ last'.rc = "ok" => rec_fh'["b"] = rec_fh["b"] + 1
              /\ \A L \in Lanes \ {"b"} : rec_fh'[L] = rec_fh[L]
        /\ (UnitFormed(last') /\ ~last'.paired /\ FlagLane(last') = "u" /\ last'.fl # <<>>)
           => NewValues(last') = UnpairedLayout(last'.cur, V("const", 0)) ]_pvars

C27_Witness ==
    /\ BadEndEmitted(last) /\ last.rc = "ok"
    /\ ~is_aligned(last.m1) /\ last.m1.line < last.m2.line
    /\ rec_fh["b"] = 1

(***************************************************************************)
(* The fragment length of a pair, from the positions and the CIGARs.       *)
(***************************************************************************)
FragDone == pf.f = "fragment_length" /\ pf.res # <<>> /\ pf.res.st = "ok"

UpMate == IF pf.arg.al1.pos < pf.arg.al2.pos THEN pf.arg.al1 ELSE pf.arg.al2

DnMate == IF pf.arg.al1.pos < pf.arg.al2.pos THEN pf.arg.al2 ELSE pf.arg.al1

LeadingClip(cigar) == IF cigar[1][2] = "S" THEN cigar[1][1] ELSE 0

TrailingClip(cigar) ==
    IF Len(cigar) > 1 /\ cigar[Len(cigar)][2] = "S" THEN cigar[Len(cigar)][1] ELSE 0

\* the symbols of the transcript that consume reference
RefSymbols(cigar) == SumRuns(cigar, {"=", "X", "D", "N"})

LeftEnd == UpMate.pos - LeadingClip(UpMate.cigar)

RightEnd == DnMate.pos + RefSymbols(DnMate.cigar) - 1 + TrailingClip(DnMate.cigar)

\* C28: the fragment length is min(max_allowed_fraglen, R - L + 1), with L
\* the position of the upstream mate less its leading soft clip and R the
\* position of the other mate plus its reference-consuming symbols less one
\* plus its trailing soft clip; it never exceeds max_allowed_fraglen.
C28_FragmentLength ==
    FragDone => /\ pf.res.v = Min(max_allowed_fraglen, RightEnd - LeftEnd + 1)
                /\ pf.res.v <= max_allowed_fraglen

(***************************************************************************)
(* The ZT:Z values of a raw line, by its tags.                             *)
(***************************************************************************)
LineDone == pf.f = "infer_num_ztzs" /\ pf.res # <<>> /\ pf.res.st = "ok"

\* the offsets at which a tag of the line starts: after each tab
TagStarts(line) == {i \in 1..Len(line) : line[i] = TAB}

\* the characters of the tag that starts after the tab at i
RECURSIVE TagFrom(_, _)
TagFrom(line, i) ==
    IF i >= Len(line) \/ line[i + 1] \in {TAB, NL} THEN <<>>
    ELSE <<line[i + 1]>> \o TagFrom(line, i + 1)

IsZtz(t) == Len(t) >= 5 /\ SubSeq(t, 1, 5) = <<"Z", "T", ":", "Z", ":">>

ZtzTags(line) == {i \in TagStarts(line) : IsZtz(TagFrom(line, i))}

Commas(t) == Cardinality({j \in 1..Len(t) : t[j] = ","})

\* C29: for a line with one ZT:Z tag, infer_num_ztzs returns the number of
\* comma-separated values of that tag, wherever the tag stands among the
\* tags and whatever the other tags hold.
C29_ZtzValuesCounted ==
    (LineDone /\ Cardinality(ZtzTags(pf.arg)) = 1)
    => \A i \in ZtzTags(pf.arg) : pf.res.n = Commas(TagFrom(pf.arg, i)) + 1

(***************************************************************************)
(* The line_id values of feature records.                                  *)
(***************************************************************************)
\* the line_id values of the rows that the last unit added, in row order
NewIds(e) ==
    IF FlagLane(e) \in {"u", "b"} THEN <<NewValues(e)[1]>>
    ELSE <<NewValues(e)[1], NewValues(e)[(Len(NewValues(e)) \div 2) + 1]>>

\* the source lines of the records of the last unit, as line_id values
SourceIds(e) ==
    IF FlagLane(e) = "u" THEN <<V("id", e.cur.line)>>
    ELSE IF FlagLane(e) = "b" THEN <<V("id", AlignedMate(e).line)>>
    ELSE IF e.m1.line < e.m2.line THEN <<V("id", e.m1.line), V("id", e.m2.line)>>
    ELSE <<V("id", e.m2.line), V("id", e.m1.line)>>

\* the rows of the last unit went to the feature file of its lane
RowsWritten(e) == UnitFormed(e) /\ e.lane \in Lanes /\ e.rc = "ok" /\ e.fl # <<>>

\* C30: the line_id of a feature record is the number of its source line,
\* counted from 1 over all lines read, and in the feature file of a lane the
\* line_id of each record is larger than that of the record before it, over
\* the whole run.
C30_LineIdsIncrease ==
    [][ RowsWritten(last')
        => /\ last'.cur.line = total' - hist'.file_start
           /\ NewIds(last') = SourceIds(last')
           /\ NewIds(last')[1][2] > hist.last_id[last'.lane]
           /\ \A i \in 1..(Len(NewIds(last')) - 1) :
                 NewIds(last')[i][2] < NewIds(last')[i + 1][2] ]_pvars

(***************************************************************************)
(* The true position of a mate in the secondary name scheme.  The names    *)
(* of WgsimNames give the fragment [TrueOff, TrueOff + 9] and the mate     *)
(* lengths 4 and 6.                                                        *)
(***************************************************************************)
WgsimDone ==
    /\ NameDone /\ pf.res.st = "ret"
    /\ pf.arg.name.scheme = "wgsim"
    /\ pf.arg.rname = pf.arg.name.ref1

\* the mate stands at the left end of the fragment
AtLeftEnd(a) ==
    \/ NameMate(a) = 1 /\ a.name.kind = "0"
    \/ NameMate(a) = 2 /\ a.name.kind = "1"

MateLength(a) == IF NameMate(a) = 1 THEN 4 ELSE 6

WgsimTruePos(a) ==
    IF AtLeftEnd(a) THEN TrueOff ELSE (TrueOff + 9) - MateLength(a) + 1

\* C31: for a name of the secondary scheme whose reference id matches, the
\* label is 1 exactly when the reported position is less than wiggle away
\* from the fragment start (mate at the left end: mate 1 unflipped, mate 2
\* flipped) or from fragment end - mate length + 1 (otherwise), with len1 for
\* mate 1 or an unpaired record and len2 for mate 2, on either strand.
C31_WgsimTruePosition ==
    WgsimDone
    => ((pf.res.correct = 1)
           <=> (Abs(pf.arg.pos - WgsimTruePos(pf.arg)) < pf.arg.wiggle))

\* a mate 2 on the reverse strand, at the right end, labelled correct
C31_Witness ==
    /\ WgsimDone
    /\ mate_flag(pf.arg) = 2 /\ ~is_fw(pf.arg)
    /\ ~AtLeftEnd(pf.arg)
    /\ pf.res.correct = 1
    /\ pf.arg.pos = TrueOff + 5

(***************************************************************************)
(* The slots of a reservoir when a unit is offered.                        *)
(***************************************************************************)
\* the draw made for the unit just offered
LastDraw(res) == res.draws[Len(res.draws)]

\* the slots after unit number u was offered with draw j to a reservoir of
\* capacity k that holds list and has seen u - 1 units
SlotsAfter(list, k, u, j) ==
    IF u <= k THEN Append(list, u)
    ELSE IF j < k THEN [list EXCEPT ![j + 1] = u]
    ELSE list

\* C32: after every unit offered, the reservoir holds min(k, units seen)
\* templates: a unit is appended while fewer than k were seen; afterwards a
\* kept unit overwrites the slot that the sampler selected for it, and a
\* discarded unit changes no slot.
C32_ReservoirSlots ==
    [][ (pf.f = "add_part1" /\ pf'.res.n = pf.res.n + 1)
        => /\ Len(pf'.res.list) = Min(pf.arg.k, pf'.res.n)
           /\ pf'.res.list
                 = SlotsAfter(pf.res.list, pf.arg.k, pf'.res.n, LastDraw(pf'.res)) ]_pvars

(***************************************************************************)
(* The counters at the end of a pass.                                      *)
(***************************************************************************)
\* the pass over a SAM file has just reached the end of the file
PassCompleted == last.step = "eof"

\* the records still pending
Pending == Cardinality({s \in {1, 2} : (IF s = 1 THEN al1 ELSE al2).valid})

\* C33: at the end of a pass that was not cut short, every line is counted
\* once: nline = nhead + nsec + nsupp + nunp + 2 * npair + p, with p the number
\* of pending records (0 or 1), and every unit has one outcome: nunp + npair
\* is the sum of the outcome counters.
C33_LinesAccounted ==
    PassCompleted
    => /\ Pending <= 1
       /\ nline = cnt["nhead"] + cnt["nsec"] + cnt["nsupp"] + cnt["nunp"]
                     + 2 * cnt["npair"] + Pending
       /\ cnt["nunp"] + cnt["npair"]
             = cnt["nunp_al"] + cnt["nunp_unal"] + cnt["npair_conc"] + cnt["npair_disc"]
                  + cnt["npair_badend"] + cnt["npair_unal"] + cnt["ntyp_mismatch"]

(***************************************************************************)
(* Termination of mdz_to_list.                                             *)
(***************************************************************************)
\* C34: mdz_to_list terminates on every MD:Z string: its loop steps over
\* every character, also one that is neither a digit, a letter nor '^', and
\* ends with the index at the length of the string.
C34_MdzToListTerminates ==
    MdzDone => pf.res.st = "ok"

(***************************************************************************)
(* The label of a mate-2 record and the mate-1 block of its name.          *)
(***************************************************************************)
\* the names of pairs in the tool's own scheme with the mate-2 block of n
SameMate2Block(n) ==
    { m \in QtipNames : /\ m.kind = "c"
                        /\ m.ref2 = n.ref2 /\ m.fw2 = n.fw2 /\ m.off2 = n.off2 }

\* the result for the record of a with the name m in place of its own
WithName(a, m) ==
    set_correctness([a EXCEPT !.name = m, !.qname = m.qname], a.wiggle, ndebug)

\* C35: for a mate-2 record with a name of the tool's own scheme, the label
\* is the same under every name that has the same mate-2 block, whatever the
\* reference name, strand and offset of the mate-1 block.
C35_Mate1BlockIgnored ==
    (NameDone /\ pf.res.st = "ret" /\ mate_flag(pf.arg) = 2
        /\ pf.arg.name.scheme = "qtip" /\ pf.arg.name.kind = "c")
    => \A m \in SameMate2Block(pf.arg.name) :
          WithName(pf.arg, m).st = "ret"
             => WithName(pf.arg, m).correct = pf.res.correct

====
